---- MODULE Spec2Model ----
(***************************************************************************)
(* Trap entry, trap return, interrupt arbitration and Debug-mode control   *)
(* of one RISC-V hart, modelled from riscvExceptions.c.                    *)
(*                                                                         *)
(* The hart is one record, riscv, holding the fields of the C structure    *)
(* that the exception code reads or writes.  Every C function that changes *)
(* the hart is an operator from a hart record (and its arguments) to the   *)
(* hart record after the call; an action applies one entry point to the    *)
(* current hart.  Bit masks (delegation registers, mie, mip, the disable   *)
(* mask) are sets of bit numbers.  Calls into the simulator run time       *)
(* (vmirt...) and into registered callbacks are appended to riscv.ev, the  *)
(* list of host calls made by the operation in progress.                   *)
(***************************************************************************)
EXTENDS Integers, Sequences, FiniteSets, TLC

VARIABLES
    riscv,      \* the hart (riscvP)
    hist        \* the operations applied so far, oldest first: the entry
                \* point, its arguments, and the hart before the call

vars == <<riscv, hist>>

----------------------------------------------------------------------------
(* Privilege modes (riscvMode) *)

RISCV_MODE_USER == 0
RISCV_MODE_SUPERVISOR == 1
RISCV_MODE_HYPERVISOR == 2
RISCV_MODE_MACHINE == 3

(* Exception codes (riscvException) *)

riscv_E_InstructionAddressMisaligned == 0
riscv_E_InstructionAccessFault == 1
riscv_E_IllegalInstruction == 2
riscv_E_Breakpoint == 3
riscv_E_LoadAddressMisaligned == 4
riscv_E_LoadAccessFault == 5
riscv_E_StoreAMOAddressMisaligned == 6
riscv_E_StoreAMOAccessFault == 7
riscv_E_EnvironmentCallFromUMode == 8
riscv_E_EnvironmentCallFromSMode == 9
riscv_E_EnvironmentCallFromHMode == 10
riscv_E_EnvironmentCallFromMMode == 11
riscv_E_InstructionPageFault == 12
riscv_E_LoadPageFault == 13
riscv_E_StoreAMOPageFault == 15

(* Interrupts: riscv_E_Interrupt (64) flags an interrupt, the low bits      *)
(* number it                                                               *)

riscv_E_Interrupt == 64
riscv_E_USWInterrupt == 64
riscv_E_SSWInterrupt == 65
riscv_E_MSWInterrupt == 67
riscv_E_UTimerInterrupt == 68
riscv_E_STimerInterrupt == 69
riscv_E_MTimerInterrupt == 71
riscv_E_UExternalInterrupt == 72
riscv_E_SExternalInterrupt == 73
riscv_E_MExternalInterrupt == 75
riscv_E_ExternalInterrupt == riscv_E_UExternalInterrupt
riscv_E_Local == 16
riscv_E_LocalInterrupt == riscv_E_Interrupt + riscv_E_Local
riscv_E_Last == riscv_E_LocalInterrupt + 1

(* Interrupt vectoring modes (riscvICMode) *)

riscv_int_Direct == 0
riscv_int_Vectored == 1

(* Debug entry causes (dmCause) *)

DMC_NONE == 0
DMC_EBREAK == 1
DMC_HALTREQ == 3
DMC_STEP == 4
DMC_RESETHALTREQ == 5

(* Reasons for which the hart is disabled (riscvDisableReason), as sets of *)
(* the bits of riscv->disable                                              *)

RVD_WFI == {"WFI"}
RVD_RESET == {"RESET"}
RVD_DEBUG == {"DEBUG"}
RVD_RESTART_WFI == RVD_WFI
RVD_RESTART_NMI == RVD_WFI
RVD_RESTART_RESET == RVD_WFI \cup RVD_RESET

(* Debug mode configuration (riscvDMMode) *)

RVDM_HALT == "RVDM_HALT"
RVDM_INTERRUPT == "RVDM_INTERRUPT"

----------------------------------------------------------------------------
(* Width of the Uns32 delegation-mask arguments of getModeX *)

Uns32Bits == 32

(* Number of bits of an Uns64 interrupt mask *)

Uns64Bits == 64

(* A host call made by the operation in progress *)

Emit(r, e, a) == [r EXCEPT !.ev = Append(@, [e |-> e, a |-> a])]

Called(r, e) == \E i \in 1..Len(r.ev) : r.ev[i].e = e

CalledWith(r, e, a) == \E i \in 1..Len(r.ev) : r.ev[i] = [e |-> e, a |-> a]

CountCalls(r, e) == Cardinality({i \in 1..Len(r.ev) : r.ev[i].e = e})

(* address AND a mask whose low k bits are clear and whose other bits are set *)

ClearLow(a, k) == a - (a % (2 ^ k))

----------------------------------------------------------------------------
(* Collaborators outside riscvExceptions.c *)

getCurrentMode(r) == r.mode

inDebugMode(r) == r.DM

riscvSetMode(r, mode) == [r EXCEPT !.mode = mode]

riscvHasMode(r, mode) ==
    CASE mode = RISCV_MODE_MACHINE -> TRUE
      [] mode = RISCV_MODE_SUPERVISOR -> r.archS
      [] mode = RISCV_MODE_USER -> r.archU
      [] OTHER -> FALSE

riscvGetMinMode(r) ==
    IF r.archU THEN RISCV_MODE_USER
    ELSE IF r.archS THEN RISCV_MODE_SUPERVISOR
    ELSE RISCV_MODE_MACHINE

riscvInhibitInstret(r) == r.inhibitIR

(* RD_CSR_MASK(riscv, xepc): bit 0 is never writable, bit 1 only when the  *)
(* configured architecture has compressed instructions                     *)

epcMaskLow(r) == IF r.cfgC THEN 1 ELSE 2

----------------------------------------------------------------------------
(* UTILITIES *)

getPC(r) == r.PC

setPCxRET_NoMask(r, newPC) ==
    [Emit(r, "vmirtSetPC", newPC) EXCEPT !.PC = newPC]

setPCxRET(r, newPC) ==
    LET pc == IF ~r.curC THEN ClearLow(newPC, 2) ELSE newPC
    IN  [Emit(r, "vmirtSetPC", pc) EXCEPT !.PC = pc]

clearEA(r) == [r EXCEPT !.exclusiveTag = FALSE]

clearEAxRET_Always(r) == [r EXCEPT !.exclusiveTag = FALSE]

clearEAxRET(r) == IF ~r.xret_preserves_lr THEN clearEA(r) ELSE r

haltProcessor(r, reason) ==
    LET r1 == IF r.disable = {}
              THEN [Emit(r, "vmirtHalt", 0) EXCEPT !.halted = TRUE]
              ELSE r
    IN  [r1 EXCEPT !.disable = @ \cup reason]

restartProcessor_Always(r, reason) ==
    [Emit([r EXCEPT !.disable = @ \ reason], "vmirtRestartNext", 0)
        EXCEPT !.halted = FALSE]

restartProcessor(r, reason) ==
    LET r1 == [r EXCEPT !.disable = @ \ reason]
    IN  IF r1.disable = {}
        THEN [Emit(r1, "vmirtRestartNext", 0) EXCEPT !.halted = FALSE]
        ELSE r1

----------------------------------------------------------------------------
(* TAKING EXCEPTIONS *)

(* vmirtGetPCDS gives the PC and the delay-slot offset held by the host *)

getEPC(r) == IF r.dsOffset # 0 THEN r.jumpBase ELSE r.PC

(* 1<<ecode in int arithmetic, as a set of bits of an Uns32.  A shift by   *)
(* the width of int or more is undefined: the build either takes the count *)
(* modulo the width or shifts every bit out.                               *)

Shl1(r, ecode) ==
    IF ecode < Uns32Bits THEN {ecode}
    ELSE IF r.shiftWraps THEN {ecode % Uns32Bits}
    ELSE {}

(* an Uns64 CSR value passed as an Uns32 argument *)

ToUns32(mask) == {b \in mask : b < Uns32Bits}

Max(a, b) == IF a > b THEN a ELSE b

getModeX(r, mMask, sMask, ecode) ==
    LET modeY == getCurrentMode(r)
        modeX == IF mMask \cap Shl1(r, ecode) = {} THEN RISCV_MODE_MACHINE
                 ELSE IF sMask \cap Shl1(r, ecode) = {}
                      THEN RISCV_MODE_SUPERVISOR
                 ELSE RISCV_MODE_USER
    IN  IF modeX > modeY THEN modeX ELSE modeY

getInterruptModeX_SidelegIgnored(r, ecode) ==
    getModeX(r, ToUns32(r.mideleg), {}, ecode)

getInterruptModeX(r, ecode) ==
    getModeX(r, ToUns32(r.mideleg), ToUns32(r.sideleg), ecode)

getExceptionModeX_SedelegFirst(r, ecode) ==
    getModeX(r, ToUns32(r.sedeleg), ToUns32(r.medeleg), ecode)

getExceptionModeX(r, ecode) ==
    getModeX(r, ToUns32(r.medeleg), ToUns32(r.sedeleg), ecode)

IS_INTERRUPT(exception) == (exception \div riscv_E_Interrupt) % 2 = 1

GET_ECODE(exception) ==
    IF IS_INTERRUPT(exception) THEN exception - riscv_E_Interrupt
    ELSE exception

getIMode_TvecOnly(customMode, tvecMode) == tvecMode

getIMode(customMode, tvecMode) ==
    IF tvecMode # 0 THEN tvecMode ELSE customMode

retiredCode_BreakpointOnly(exception) == exception = riscv_E_Breakpoint

retiredCode(exception) ==
    exception \in { riscv_E_Breakpoint,
                    riscv_E_EnvironmentCallFromUMode,
                    riscv_E_EnvironmentCallFromSMode,
                    riscv_E_EnvironmentCallFromHMode,
                    riscv_E_EnvironmentCallFromMMode }

accessFaultCode(exception) ==
    exception \in { riscv_E_InstructionAccessFault,
                    riscv_E_LoadAccessFault,
                    riscv_E_StoreAMOAccessFault }

isExternalInterrupt(exception) ==
    /\ exception >= riscv_E_UExternalInterrupt
    /\ exception <= riscv_E_MExternalInterrupt

----------------------------------------------------------------------------
(* DEBUG MODE (entry; defined before its first use) *)

updateDMStall_AlwaysHalt(r, DMStall) ==
    LET r1 == [r EXCEPT !.DMStall = DMStall]
    IN  IF DMStall THEN haltProcessor(r1, RVD_DEBUG)
        ELSE restartProcessor(r1, RVD_DEBUG)

updateDMStall(r, DMStall) ==
    LET r1 == [r EXCEPT !.DMStall = DMStall]
    IN  IF r1.debug_mode = RVDM_INTERRUPT THEN r1
        ELSE IF DMStall THEN haltProcessor(r1, RVD_DEBUG)
        ELSE restartProcessor(r1, RVD_DEBUG)

setDM(r, DM) ==
    [Emit(r, "vmirtWriteNetPort", IF DM THEN 1 ELSE 0)
        EXCEPT !.DM = DM, !.DMPort = DM]

enterDM_Overwrite(r, cause) ==
    LET r1 == setDM(r, TRUE)
        r2 == [r1 EXCEPT !.dcsr.prv = getCurrentMode(r1),
                         !.dcsr.cause = cause,
                         !.dpc = getEPC(r1)]
        r3 == riscvSetMode(r2, RISCV_MODE_MACHINE)
        r4 == updateDMStall(r3, TRUE)
    IN  IF r4.debug_mode = RVDM_INTERRUPT
        THEN Emit(r4, "vmirtInterrupt", 0)
        ELSE r4

enterDM(r, cause) ==
    LET r1 == IF ~inDebugMode(r)
              THEN LET a == setDM(Emit(r, "enterDM", cause), TRUE)
                       b == [a EXCEPT !.dcsr.prv = getCurrentMode(a),
                                      !.dcsr.cause = cause,
                                      !.dpc = getEPC(a)]
                   IN  riscvSetMode(b, RISCV_MODE_MACHINE)
              ELSE Emit(r, "enterDM", cause)
        r2 == updateDMStall(r1, TRUE)
    IN  IF r2.debug_mode = RVDM_INTERRUPT
        THEN Emit(r2, "vmirtInterrupt", 0)
        ELSE r2

----------------------------------------------------------------------------
(* TAKING EXCEPTIONS (continued) *)

(* TARGET_MODE_X: the CSR update when taking a trap to mode X.  The status,*)
(* cause, epc, tval and tvec registers of the three modes are indexed by   *)
(* the mode.                                                               *)

TARGET_MODE_X_IEKept(r, X, isInt, ecode, EPC, tval) ==
    [r EXCEPT !.PIE[X] = r.IE[X],
              !.cause[X] = [ExceptionCode |-> ecode, Interrupt |-> isInt],
              !.epc[X] = ClearLow(EPC, epcMaskLow(r)),
              !.tval[X] = tval]

TARGET_MODE_X_MachineToo(r, X, isInt, ecode, EPC, tval) ==
    LET IE == r.IE[X]
    IN  [r EXCEPT !.PIE[X] = IE,
                  !.IE[X] = FALSE,
                  !.IE[RISCV_MODE_MACHINE] = FALSE,
                  !.cause[X] = [ExceptionCode |-> ecode, Interrupt |-> isInt],
                  !.epc[X] = ClearLow(EPC, epcMaskLow(r)),
                  !.tval[X] = tval]

TARGET_MODE_X(r, X, isInt, ecode, EPC, tval) ==
    LET IE == r.IE[X]
    IN  [r EXCEPT !.PIE[X] = IE,
                  !.IE[X] = FALSE,
                  !.cause[X] = [ExceptionCode |-> ecode, Interrupt |-> isInt],
                  !.epc[X] = ClearLow(EPC, epcMaskLow(r)),
                  !.tval[X] = tval]

tvecBase(r, X) == r.tvec[X].BASE * 4

tvecIMode(r, X) == getIMode(r.IMode[X], r.tvec[X].MODE)

(* What a callback of the derived model can read of the hart when called *)

Visible(r) ==
    [mode |-> r.mode, DM |-> r.DM, exception |-> r.exception, PC |-> r.PC,
     IE |-> r.IE, PIE |-> r.PIE, MPP |-> r.MPP, SPP |-> r.SPP,
     cause |-> r.cause, epc |-> r.epc, tval |-> r.tval]

RECURSIVE notifyAll(_, _, _, _)
notifyAll(r, e, mode, n) ==
    IF n = 0 THEN r
    ELSE LET r1 == notifyAll(r, e, mode, n - 1)
         IN  [r1 EXCEPT !.ev = Append(@,
                [e |-> e, a |-> mode, cb |-> n, seen |-> Visible(r1)])]

handlerAddress(base, mode, isInt, ecode) ==
    IF (mode = riscv_int_Direct) \/ ~isInt THEN base
    ELSE base + (4 * ecode)

takeTrap_NotifyFirst(r, exception, tval) ==
    LET isInt == IS_INTERRUPT(exception)
        ecode == GET_ECODE(exception)
        EPC   == getEPC(r)
        modeY == getCurrentMode(r)
        r0    == Emit(r, "takeTrap", exception)
        r1    == IF ~retiredCode(exception) /\ ~riscvInhibitInstret(r0)
                 THEN [r0 EXCEPT !.baseInstructions = @ + 1]
                 ELSE r0
        r2    == IF accessFaultCode(exception)
                 THEN [r1 EXCEPT !.AFErrorOut = r1.AFErrorIn]
                 ELSE [r1 EXCEPT !.AFErrorOut = 0]
        r3    == clearEA(r2)
        modeX == IF isInt THEN getInterruptModeX(r3, ecode)
                 ELSE getExceptionModeX(r3, ecode)
        ecodeMod ==
                 IF isExternalInterrupt(exception)
                 THEN LET offset == exception - riscv_E_ExternalInterrupt
                      IN  IF r3.extInt[offset] # 0 THEN r3.extInt[offset]
                          ELSE ecode
                 ELSE ecode
        r4    == TARGET_MODE_X(r3, modeX, isInt, ecodeMod, EPC, tval)
        r5    == IF modeX = RISCV_MODE_USER THEN r4
                 ELSE IF modeX = RISCV_MODE_SUPERVISOR
                      THEN [r4 EXCEPT !.SPP = modeY]
                 ELSE [r4 EXCEPT !.MPP = modeY]
        base  == tvecBase(r3, modeX)
        mode  == tvecIMode(r3, modeX)
        handlerPC == handlerAddress(base, mode, isInt, ecode)
        r6    == riscvSetMode(
                    notifyAll(r5, "trapNotifier", modeX, r5.numCBs), modeX)
        r7    == [r6 EXCEPT !.exception = exception]
        r8    == [Emit(r7, "vmirtSetPCException", handlerPC)
                     EXCEPT !.PC = handlerPC]
    IN  r8

takeTrap(r, exception, tval) ==
    LET isInt == IS_INTERRUPT(exception)
        ecode == GET_ECODE(exception)
        EPC   == getEPC(r)
        modeY == getCurrentMode(r)
        r0    == Emit(r, "takeTrap", exception)
        r1    == IF ~retiredCode(exception) /\ ~riscvInhibitInstret(r0)
                 THEN [r0 EXCEPT !.baseInstructions = @ + 1]
                 ELSE r0
        r2    == IF accessFaultCode(exception)
                 THEN [r1 EXCEPT !.AFErrorOut = r1.AFErrorIn]
                 ELSE [r1 EXCEPT !.AFErrorOut = 0]
        r3    == clearEA(r2)
        modeX == IF isInt THEN getInterruptModeX(r3, ecode)
                 ELSE getExceptionModeX(r3, ecode)
        ecodeMod ==
                 IF isExternalInterrupt(exception)
                 THEN LET offset == exception - riscv_E_ExternalInterrupt
                      IN  IF r3.extInt[offset] # 0 THEN r3.extInt[offset]
                          ELSE ecode
                 ELSE ecode
        r4    == TARGET_MODE_X(r3, modeX, isInt, ecodeMod, EPC, tval)
        r5    == IF modeX = RISCV_MODE_USER THEN r4
                 ELSE IF modeX = RISCV_MODE_SUPERVISOR
                      THEN [r4 EXCEPT !.SPP = modeY]
                 ELSE [r4 EXCEPT !.MPP = modeY]
        base  == tvecBase(r3, modeX)
        mode  == tvecIMode(r3, modeX)
        handlerPC == handlerAddress(base, mode, isInt, ecode)
        r6    == riscvSetMode(r5, modeX)
        r7    == [r6 EXCEPT !.exception = exception]
        r8    == [Emit(r7, "vmirtSetPCException", handlerPC)
                     EXCEPT !.PC = handlerPC]
    IN  notifyAll(r8, "trapNotifier", modeX, r8.numCBs)

riscvTakeException(r, exception, tval) ==
    IF inDebugMode(r)
    THEN enterDM(Emit(r, "vmirtAbortRepeat", 0), DMC_NONE)
    ELSE takeTrap(r, exception, tval)

riscvIllegalInstruction(r) ==
    LET tval == IF r.tval_ii_code THEN r.instruction ELSE 0
    IN  riscvTakeException(r, riscv_E_IllegalInstruction, tval)

riscvInstructionAddressMisaligned(r, tval) ==
    riscvTakeException(r, riscv_E_InstructionAddressMisaligned,
                       ClearLow(tval, 1))

riscvECALL(r) ==
    riscvTakeException(r,
        riscv_E_EnvironmentCallFromUMode + getCurrentMode(r), 0)

----------------------------------------------------------------------------
(* First-only-fault handling and memory exceptions *)

handleFF_KeepsFlag(r) ==
    IF r.vFirstFault /\ r.vstart # 0
    THEN [suppress |-> TRUE,
          r |-> Emit([r EXCEPT !.vl = r.vstart],
                     "riscvRefreshVectorPMKey", 0)]
    ELSE [suppress |-> FALSE, r |-> r]

handleFF(r) ==
    IF r.vFirstFault
    THEN LET r1 == [r EXCEPT !.vFirstFault = FALSE]
         IN  IF r1.vstart # 0
             THEN [suppress |-> TRUE,
                   r |-> Emit([r1 EXCEPT !.vl = r1.vstart],
                              "riscvRefreshVectorPMKey", 0)]
             ELSE [suppress |-> FALSE, r |-> r1]
    ELSE [suppress |-> FALSE, r |-> r]

riscvTakeMemoryException(r, exception, tval) ==
    LET r1 == IF r.vstartWritable THEN r ELSE [r EXCEPT !.vstart = 0]
        ff == handleFF(r1)
    IN  IF ~ff.suppress THEN riscvTakeException(ff.r, exception, tval)
        ELSE ff.r

----------------------------------------------------------------------------
(* PENDING INTERRUPTS *)

getIE_Raw(r, IE, modeIE) == IE

getIE(r, IE, modeIE) ==
    LET mode == getCurrentMode(r)
    IN  IF mode < modeIE THEN TRUE
        ELSE IF mode > modeIE THEN FALSE
        ELSE IE

getPendingInterrupts(r) == r.mie \cap r.mip

getPendingAndEnabledInterrupts(r) ==
    LET result == IF inDebugMode(r) THEN {} ELSE getPendingInterrupts(r)
        MIE == getIE(r, r.IE[RISCV_MODE_MACHINE], RISCV_MODE_MACHINE)
        SIE == getIE(r, r.IE[RISCV_MODE_SUPERVISOR], RISCV_MODE_SUPERVISOR)
        UIE == getIE(r, r.IE[RISCV_MODE_USER], RISCV_MODE_USER)
        mideleg == r.mideleg
        sideleg == r.sideleg \cap mideleg
        mMask == (0 .. Uns64Bits - 1) \ mideleg
        sMask == mideleg \ sideleg
        uMask == sideleg
        res1 == IF ~MIE THEN result \ mMask ELSE result
        res2 == IF ~SIE THEN res1 \ sMask ELSE res1
        res3 == IF ~UIE THEN res2 \ uMask ELSE res2
    IN  IF result # {} THEN res3 ELSE result

riscvTestInterrupt(r) ==
    LET pendingEnabled == getPendingAndEnabledInterrupts(r)
        r0 == Emit(r, "riscvTestInterrupt", 0)
        r1 == IF getPendingInterrupts(r0) # {}
              THEN restartProcessor(r0, RVD_RESTART_WFI)
              ELSE r0
    IN  IF pendingEnabled # {}
        THEN Emit(r1, "vmirtDoSynchronousInterrupt", 0)
        ELSE r1

----------------------------------------------------------------------------
(* EXCEPTION RETURN *)

getERETMode_NoCheck(r, newMode, minMode) == newMode

getERETMode(r, newMode, minMode) ==
    IF riscvHasMode(r, newMode) THEN newMode ELSE minMode

clearMPRV_AnyVersion(r, newMode) ==
    IF newMode # RISCV_MODE_MACHINE THEN [r EXCEPT !.MPRV = FALSE] ELSE r

clearMPRV(r, newMode) ==
    IF r.privNewer /\ newMode # RISCV_MODE_MACHINE
    THEN [r EXCEPT !.MPRV = FALSE]
    ELSE r

doERETCommon_ModeKept(r, retMode, newMode, epc) ==
    LET r2 == setPCxRET(r, epc)
        r3 == notifyAll(r2, "ERETNotifier", retMode, r2.numCBs)
    IN  riscvTestInterrupt(r3)

doERETCommon_TestFirst(r, retMode, newMode, epc) ==
    LET r0 == riscvTestInterrupt(r)
        r1 == riscvSetMode(r0, newMode)
        r2 == setPCxRET(r1, epc)
    IN  notifyAll(r2, "ERETNotifier", retMode, r2.numCBs)

doERETCommon(r, retMode, newMode, epc) ==
    LET r1 == riscvSetMode(r, newMode)
        r2 == setPCxRET(r1, epc)
        r3 == notifyAll(r2, "ERETNotifier", retMode, r2.numCBs)
    IN  riscvTestInterrupt(r3)

riscvMRET_InDebug(r) ==
    LET minMode == riscvGetMinMode(r)
        newMode == getERETMode(r, r.MPP, minMode)
        r1 == clearEAxRET(r)
        r2 == [r1 EXCEPT !.IE[RISCV_MODE_MACHINE] =
                             r1.PIE[RISCV_MODE_MACHINE]]
        r3 == [r2 EXCEPT !.PIE[RISCV_MODE_MACHINE] = TRUE]
        r4 == [r3 EXCEPT !.MPP = minMode]
        r5 == clearMPRV(r4, newMode)
    IN  doERETCommon(r5, RISCV_MODE_MACHINE, newMode,
                     r5.epc[RISCV_MODE_MACHINE])

riscvMRET(r) ==
    IF ~inDebugMode(r)
    THEN LET MPP     == r.MPP
             minMode == riscvGetMinMode(r)
             newMode == getERETMode(r, MPP, minMode)
             retMode == RISCV_MODE_MACHINE
             r1 == clearEAxRET(r)
             r2 == [r1 EXCEPT !.IE[RISCV_MODE_MACHINE] =
                                  r1.PIE[RISCV_MODE_MACHINE]]
             r3 == [r2 EXCEPT !.PIE[RISCV_MODE_MACHINE] = TRUE]
             r4 == [r3 EXCEPT !.MPP = minMode]
             r5 == clearMPRV(r4, newMode)
         IN  doERETCommon(r5, retMode, newMode, r5.epc[RISCV_MODE_MACHINE])
    ELSE r

riscvSRET(r) ==
    IF ~inDebugMode(r)
    THEN LET SPP     == r.SPP
             minMode == riscvGetMinMode(r)
             newMode == getERETMode(r, SPP, minMode)
             retMode == RISCV_MODE_SUPERVISOR
             r1 == clearEAxRET(r)
             r2 == [r1 EXCEPT !.IE[RISCV_MODE_SUPERVISOR] =
                                  r1.PIE[RISCV_MODE_SUPERVISOR]]
             r3 == [r2 EXCEPT !.PIE[RISCV_MODE_SUPERVISOR] = TRUE]
             r4 == [r3 EXCEPT !.SPP = minMode % 2]
             r5 == clearMPRV(r4, newMode)
         IN  doERETCommon(r5, retMode, newMode,
                          r5.epc[RISCV_MODE_SUPERVISOR])
    ELSE r

riscvURET(r) ==
    IF ~inDebugMode(r)
    THEN LET newMode == RISCV_MODE_USER
             retMode == RISCV_MODE_USER
             r1 == clearEAxRET(r)
             r2 == [r1 EXCEPT !.IE[RISCV_MODE_USER] =
                                  r1.PIE[RISCV_MODE_USER]]
             r3 == [r2 EXCEPT !.PIE[RISCV_MODE_USER] = TRUE]
         IN  doERETCommon(r3, retMode, newMode, r3.epc[RISCV_MODE_USER])
    ELSE r

----------------------------------------------------------------------------
(* DEBUG MODE (exit, EBREAK, single step) *)

leaveDM_TrapReturn(r) ==
    LET newMode == r.MPP
        retMode == RISCV_MODE_MACHINE
        r1 == setDM(r, FALSE)
        r2 == clearMPRV(r1, newMode)
        r3 == doERETCommon(r2, retMode, newMode, r2.epc[RISCV_MODE_MACHINE])
    IN  updateDMStall(r3, FALSE)

leaveDM(r) ==
    LET newMode == r.dcsr.prv
        retMode == RISCV_MODE_MACHINE
        r1 == setDM(r, FALSE)
        r2 == clearMPRV(r1, newMode)
        r3 == doERETCommon(r2, retMode, newMode, r2.dpc)
    IN  updateDMStall(r3, FALSE)

riscvSetDM(r, DM) ==
    LET oldDM == inDebugMode(r)
    IN  IF (oldDM = DM) \/ r.inSaveRestore THEN r
        ELSE IF DM THEN enterDM(r, DMC_HALTREQ)
        ELSE leaveDM(r)

riscvSetDMStall_LeavesDM(r, DMStall) ==
    IF ~DMStall /\ inDebugMode(r) THEN leaveDM(r)
    ELSE updateDMStall(r, DMStall)

riscvSetDMStall(r, DMStall) == updateDMStall(r, DMStall)

riscvStepExcept(r) ==
    IF ~inDebugMode(r) /\ r.dcsr.step THEN enterDM(r, DMC_STEP) ELSE r

riscvDRET_AlwaysLeave(r) == leaveDM(r)

riscvDRET(r) ==
    IF ~inDebugMode(r) THEN riscvIllegalInstruction(r) ELSE leaveDM(r)

riscvEBREAK_MachineBitOnly(r) ==
    IF inDebugMode(r) \/ r.dcsr.ebreakm
    THEN LET r1 == IF r.dcsr.stopcount /\ ~riscvInhibitInstret(r)
                   THEN [r EXCEPT !.baseInstructions = @ + 1]
                   ELSE r
         IN  enterDM(r1, DMC_EBREAK)
    ELSE riscvTakeException(r, riscv_E_Breakpoint, getPC(r))

riscvEBREAK(r) ==
    LET mode  == getCurrentMode(r)
        useDM == IF inDebugMode(r) THEN TRUE
                 ELSE IF mode = RISCV_MODE_USER THEN r.dcsr.ebreaku
                 ELSE IF mode = RISCV_MODE_SUPERVISOR THEN r.dcsr.ebreaks
                 ELSE IF mode = RISCV_MODE_MACHINE THEN r.dcsr.ebreakm
                 ELSE FALSE
    IN  IF useDM
        THEN LET r1 == IF r.dcsr.stopcount /\ ~riscvInhibitInstret(r)
                       THEN [r EXCEPT !.baseInstructions = @ + 1]
                       ELSE r
             IN  enterDM(r1, DMC_EBREAK)
        ELSE riscvTakeException(r, riscv_E_Breakpoint, getPC(r))

----------------------------------------------------------------------------
(* INTERRUPT ARBITRATION AND FETCH *)

INT_INDEX(code) == code - riscv_E_Interrupt

getIntPri(intNum) ==
    IF intNum >= INT_INDEX(riscv_E_Last) THEN 0
    ELSE CASE intNum = INT_INDEX(riscv_E_UTimerInterrupt)    -> 1
           [] intNum = INT_INDEX(riscv_E_USWInterrupt)       -> 2
           [] intNum = INT_INDEX(riscv_E_UExternalInterrupt) -> 3
           [] intNum = INT_INDEX(riscv_E_STimerInterrupt)    -> 4
           [] intNum = INT_INDEX(riscv_E_SSWInterrupt)       -> 5
           [] intNum = INT_INDEX(riscv_E_SExternalInterrupt) -> 6
           [] intNum = INT_INDEX(riscv_E_MTimerInterrupt)    -> 7
           [] intNum = INT_INDEX(riscv_E_MSWInterrupt)       -> 8
           [] intNum = INT_INDEX(riscv_E_MExternalInterrupt) -> 9
           [] OTHER -> 0

(* The intDesc selected by the loop of doInterrupt once it has looked at   *)
(* the bits of intMask below ecode; ecode -1 is no selection yet.          *)

noneSelected == [ecode |-> -1, emode |-> 0]

replaceSelected(r, selected, try) ==
    IF selected.ecode = -1 THEN TRUE
    ELSE IF selected.emode < try.emode THEN TRUE
    ELSE IF selected.emode > try.emode THEN FALSE
    ELSE getIntPri(selected.ecode) <= getIntPri(try.ecode)

RECURSIVE selectInterrupt(_, _, _)
selectInterrupt(r, intMask, ecode) ==
    IF ecode = 0 THEN noneSelected
    ELSE LET selected == selectInterrupt(r, intMask, ecode - 1)
             this     == ecode - 1
             try      == [ecode |-> this,
                          emode |-> getInterruptModeX(r, this)]
         IN  IF this \in intMask /\ replaceSelected(r, selected, try)
             THEN try
             ELSE selected

doInterrupt(r, intMask) ==
    LET selected == selectInterrupt(r, intMask, Uns64Bits)
    IN  riscvTakeException(Emit(r, "doInterrupt", selected.ecode),
                           riscv_E_Interrupt + selected.ecode, 0)

(* validateFetchAddress: whether the address is executable, misses in the  *)
(* virtual memory system or is a bus error is the host's answer, fetch     *)

validateFetchAddress(r, thisPC, complete, fetch) ==
    LET r0 == Emit(r, "validateFetchAddress", thisPC)
    IN  CASE fetch = "executable" -> [ok |-> TRUE, r |-> r0]
          [] fetch = "vmmiss" ->
                [ok |-> FALSE,
                 r  |-> IF complete
                        THEN riscvTakeException(r0,
                                 riscv_E_InstructionPageFault, thisPC)
                        ELSE r0]
          [] OTHER ->
                [ok |-> FALSE,
                 r  |-> IF complete
                        THEN riscvTakeException(r0,
                                 riscv_E_InstructionAccessFault, thisPC)
                        ELSE r0]

fetchReturn_NeverPending(r, fetchOK, complete) ==
    [r EXCEPT !.fetchResult =
        IF fetchOK THEN "VMI_FETCH_NONE" ELSE "VMI_FETCH_EXCEPTION_COMPLETE"]

fetchReturn(r, fetchOK, complete) ==
    [r EXCEPT !.fetchResult =
        IF fetchOK THEN "VMI_FETCH_NONE"
        ELSE IF complete THEN "VMI_FETCH_EXCEPTION_COMPLETE"
        ELSE "VMI_FETCH_EXCEPTION_PENDING"]

riscvIFetchExcept_InterruptFirst(r, thisPC, complete, fetch) ==
    LET intMask == getPendingAndEnabledInterrupts(r)
    IN  IF intMask # {}
        THEN fetchReturn(IF complete THEN doInterrupt(r, intMask) ELSE r,
                         FALSE, complete)
        ELSE IF r.netValue.resethaltreqS
        THEN fetchReturn(
                IF complete
                THEN enterDM([r EXCEPT !.netValue.resethaltreqS = FALSE],
                             DMC_RESETHALTREQ)
                ELSE r, FALSE, complete)
        ELSE IF r.netValue.haltreq /\ ~inDebugMode(r)
        THEN fetchReturn(IF complete THEN enterDM(r, DMC_HALTREQ) ELSE r,
                         FALSE, complete)
        ELSE LET v == validateFetchAddress(r, thisPC, complete, fetch)
             IN  fetchReturn(v.r, v.ok, complete)

riscvIFetchExcept(r, thisPC, complete, fetch) ==
    LET intMask == getPendingAndEnabledInterrupts(r)
    IN  IF r.netValue.resethaltreqS
        THEN fetchReturn(
                IF complete
                THEN enterDM([r EXCEPT !.netValue.resethaltreqS = FALSE],
                             DMC_RESETHALTREQ)
                ELSE r, FALSE, complete)
        ELSE IF r.netValue.haltreq /\ ~inDebugMode(r)
        THEN fetchReturn(IF complete THEN enterDM(r, DMC_HALTREQ) ELSE r,
                         FALSE, complete)
        ELSE IF intMask # {}
        THEN fetchReturn(IF complete THEN doInterrupt(r, intMask) ELSE r,
                         FALSE, complete)
        ELSE LET v == validateFetchAddress(r, thisPC, complete, fetch)
             IN  fetchReturn(v.r, v.ok, complete)

----------------------------------------------------------------------------
(* WFI, RESET, NMI AND THE INPUT PORTS *)

posedge(old, new) == ~old /\ new

negedge(old, new) == old /\ ~new

riscvWFI_PendingEnabled(r) ==
    IF ~(inDebugMode(r) \/ getPendingAndEnabledInterrupts(r) # {})
    THEN haltProcessor(r, RVD_WFI)
    ELSE r

riscvWFI(r) ==
    IF ~(inDebugMode(r) \/ getPendingInterrupts(r) # {})
    THEN haltProcessor(r, RVD_WFI)
    ELSE r

(* riscvCSRReset: the reset values of the CSR fields of this model *)

riscvCSRReset(r) ==
    [r EXCEPT !.IE = [m \in DOMAIN r.IE |-> FALSE],
              !.MPRV = FALSE,
              !.cause[RISCV_MODE_MACHINE] =
                    [ExceptionCode |-> 0, Interrupt |-> FALSE],
              !.dcsr.prv = RISCV_MODE_MACHINE,
              !.dcsr.step = FALSE,
              !.dcsr.ebreakm = FALSE,
              !.dcsr.ebreaks = FALSE,
              !.dcsr.ebreaku = FALSE,
              !.dcsr.stopcount = FALSE,
              !.dcsr.cause = DMC_NONE]

riscvReset_LatchKept(r) ==
    LET r1 == restartProcessor(r, RVD_RESTART_RESET)
        r2 == riscvSetDM(r1, FALSE)
        r3 == riscvSetMode(r2, RISCV_MODE_MACHINE)
        r4 == riscvCSRReset(r3)
        r5 == notifyAll(r4, "resetNotifier", 0, r4.numCBs)
        r6 == [r5 EXCEPT !.exception = 0]
    IN  [Emit(r6, "vmirtSetPCException", r6.reset_address)
            EXCEPT !.PC = r6.reset_address]

riscvReset(r) ==
    LET r1 == restartProcessor(r, RVD_RESTART_RESET)
        r2 == riscvSetDM(r1, FALSE)
        r3 == riscvSetMode(r2, RISCV_MODE_MACHINE)
        r4 == riscvCSRReset(r3)
        r5 == notifyAll(r4, "resetNotifier", 0, r4.numCBs)
        r6 == [r5 EXCEPT !.exception = 0]
        r7 == [Emit(r6, "vmirtSetPCException", r6.reset_address)
                  EXCEPT !.PC = r6.reset_address]
    IN  [r7 EXCEPT !.netValue.resethaltreqS = r7.netValue.resethaltreq]

doNMI_SavesMode(r) ==
    LET r1 == restartProcessor(r, RVD_RESTART_NMI)
        r2 == riscvSetMode(r1, RISCV_MODE_MACHINE)
        r3 == [r2 EXCEPT !.cause[RISCV_MODE_MACHINE] =
                    [ExceptionCode |-> 0, Interrupt |-> FALSE],
                         !.MPP = getCurrentMode(r)]
        r4 == [r3 EXCEPT !.epc[RISCV_MODE_MACHINE] = getEPC(r3)]
        r5 == [r4 EXCEPT !.exception = 0]
    IN  [Emit(r5, "vmirtSetPCException", r5.nmi_address)
            EXCEPT !.PC = r5.nmi_address]

doNMI(r) ==
    LET r1 == restartProcessor(r, RVD_RESTART_NMI)
        r2 == riscvSetMode(r1, RISCV_MODE_MACHINE)
        r3 == [r2 EXCEPT !.cause[RISCV_MODE_MACHINE] =
                    [ExceptionCode |-> 0, Interrupt |-> FALSE]]
        r4 == [r3 EXCEPT !.epc[RISCV_MODE_MACHINE] = getEPC(r3)]
        r5 == [r4 EXCEPT !.exception = 0]
    IN  [Emit(r5, "vmirtSetPCException", r5.nmi_address)
            EXCEPT !.PC = r5.nmi_address]

riscvUpdatePending_AlwaysTest(r) ==
    riscvTestInterrupt(
        [r EXCEPT !.mip = {i \in r.ip : i < Uns64Bits} \cup r.swip])

riscvUpdatePending(r) ==
    LET oldValue == r.mip
        newValue == {i \in r.ip : i < Uns64Bits} \cup r.swip
    IN  IF oldValue # newValue
        THEN riscvTestInterrupt([r EXCEPT !.mip = newValue])
        ELSE r

resetPortCB_LevelTriggered(r, newValue) ==
    LET r1 == IF newValue THEN haltProcessor(r, RVD_RESET) ELSE riscvReset(r)
    IN  [r1 EXCEPT !.netValue.reset = newValue]

resetPortCB(r, newValue) ==
    LET oldValue == r.netValue.reset
        r1 == IF posedge(oldValue, newValue)
              THEN haltProcessor(r, RVD_RESET)
              ELSE IF negedge(oldValue, newValue) THEN riscvReset(r)
              ELSE r
    IN  [r1 EXCEPT !.netValue.reset = newValue]

nmiPortCB_IgnoreDM(r, newValue) ==
    LET oldValue == r.netValue.nmi
        r1 == IF negedge(oldValue, newValue) THEN doNMI(r) ELSE r
    IN  [r1 EXCEPT !.dcsr.nmip = newValue, !.netValue.nmi = newValue]

nmiPortCB(r, newValue) ==
    LET oldValue == r.netValue.nmi
        r1 == IF ~inDebugMode(r) /\ negedge(oldValue, newValue)
              THEN doNMI(r)
              ELSE r
    IN  [r1 EXCEPT !.dcsr.nmip = newValue, !.netValue.nmi = newValue]

haltreqPortCB(r, newValue) ==
    LET oldValue == r.netValue.haltreq
        r1 == IF ~inDebugMode(r) /\ posedge(oldValue, newValue)
              THEN Emit(r, "vmirtDoSynchronousInterrupt", 0)
              ELSE r
    IN  [r1 EXCEPT !.netValue.haltreq = newValue]

resethaltreqPortCB(r, newValue) ==
    [r EXCEPT !.netValue.resethaltreq = newValue]

interruptPortCB(r, index, newValue) ==
    riscvUpdatePending(
        IF newValue THEN [r EXCEPT !.ip = @ \cup {index}]
        ELSE [r EXCEPT !.ip = @ \ {index}])

interruptIDPortCB_EveryOffset(r, offset, newValue) ==
    [r EXCEPT !.extInt = [o \in DOMAIN r.extInt |-> newValue]]

interruptIDPortCB(r, offset, newValue) ==
    [r EXCEPT !.extInt[offset] = newValue]

----------------------------------------------------------------------------
(* THE HART AFTER CONSTRUCTION *)

Modes == {RISCV_MODE_USER, RISCV_MODE_SUPERVISOR, RISCV_MODE_MACHINE}

(* The hart as constructed and reset: Machine mode, not in Debug mode, no  *)
(* interrupt pending, every CSR field of this model at its reset value.    *)
(* The configuration is a Machine/Supervisor/User hart with compressed     *)
(* instructions and halting Debug mode.                                    *)

Hart0 ==
    [ mode |-> RISCV_MODE_MACHINE,
      DM |-> FALSE, DMStall |-> FALSE, DMPort |-> FALSE,
      IE |-> [m \in Modes |-> FALSE],
      PIE |-> [m \in Modes |-> FALSE],
      MPP |-> RISCV_MODE_USER, SPP |-> RISCV_MODE_USER, MPRV |-> FALSE,
      cause |-> [m \in Modes |-> [ExceptionCode |-> 0, Interrupt |-> FALSE]],
      epc |-> [m \in Modes |-> 0],
      tval |-> [m \in Modes |-> 0],
      tvec |-> [m \in Modes |-> [BASE |-> 0, MODE |-> riscv_int_Direct]],
      IMode |-> [m \in Modes |-> riscv_int_Direct],
      medeleg |-> {}, sedeleg |-> {}, mideleg |-> {}, sideleg |-> {},
      mie |-> {}, mip |-> {}, ip |-> {}, swip |-> {},
      exception |-> 0,
      exclusiveTag |-> FALSE,
      disable |-> {}, halted |-> FALSE,
      baseInstructions |-> 0,
      PC |-> 0, jumpBase |-> 0, dsOffset |-> 0,
      AFErrorIn |-> 0, AFErrorOut |-> 0,
      extInt |-> [o \in 0..3 |-> 0],
      netValue |-> [reset |-> FALSE, nmi |-> FALSE, haltreq |-> FALSE,
                    resethaltreq |-> FALSE, resethaltreqS |-> FALSE],
      dcsr |-> [prv |-> RISCV_MODE_MACHINE, cause |-> DMC_NONE,
                step |-> FALSE, ebreakm |-> FALSE, ebreaks |-> FALSE,
                ebreaku |-> FALSE, stopcount |-> FALSE, nmip |-> FALSE],
      dpc |-> 0,
      vFirstFault |-> FALSE, vstart |-> 0, vl |-> 0,
      vstartWritable |-> TRUE,
      inSaveRestore |-> FALSE,
      archS |-> TRUE, archU |-> TRUE, cfgC |-> TRUE, curC |-> TRUE,
      privNewer |-> FALSE,
      xret_preserves_lr |-> FALSE,
      debug_mode |-> RVDM_HALT,
      inhibitIR |-> FALSE,
      tval_ii_code |-> FALSE, instruction |-> 0,
      reset_address |-> 0, nmi_address |-> 0,
      numCBs |-> 0,
      shiftWraps |-> TRUE,
      fetchResult |-> "VMI_FETCH_NONE",
      archN |-> FALSE, local_int_num |-> 0, unimp_int_mask |-> {},
      isContainer |-> FALSE, extExceptions |-> <<>>,
      exceptionMask |-> {}, interruptMask |-> {},
      exceptions |-> [valid |-> FALSE, all |-> <<>>], exceptionNum |-> 0,
      ev |-> <<>> ]

(* The architecture variants: Machine only, Machine/User,                  *)
(* Machine/Supervisor/User                                                 *)

Archs == { [archS |-> FALSE, archU |-> FALSE],
           [archS |-> FALSE, archU |-> TRUE],
           [archS |-> TRUE,  archU |-> TRUE] }

ModesOf(a) ==
    {RISCV_MODE_MACHINE}
        \cup (IF a.archS THEN {RISCV_MODE_SUPERVISOR} ELSE {})
        \cup (IF a.archU THEN {RISCV_MODE_USER} ELSE {})

----------------------------------------------------------------------------
(* OPERATIONS *)

(* The last operation applied and the hart before it *)

NoOp == [name |-> "none", a |-> 0, b |-> 0, c |-> "", pre |-> Hart0]

Op == IF hist = <<>> THEN NoOp ELSE hist[Len(hist)]

Pre == Op.pre

(* The operation before the last one *)

Op2 == IF Len(hist) < 2 THEN NoOp ELSE hist[Len(hist) - 1]

(* An entry point starts with an empty list of host calls *)

Begin(r) == [r EXCEPT !.ev = <<>>]

Apply(name, a, b, c, new) ==
    /\ riscv' = new
    /\ hist' = Append(hist, [name |-> name, a |-> a, b |-> b, c |-> c,
                             pre |-> riscv])

TakeException(exception, tval) ==
    Apply("riscvTakeException", exception, tval, "",
          riscvTakeException(Begin(riscv), exception, tval))

MRET == Apply("riscvMRET", 0, 0, "", riscvMRET(Begin(riscv)))

SRET == Apply("riscvSRET", 0, 0, "", riscvSRET(Begin(riscv)))

URET == Apply("riscvURET", 0, 0, "", riscvURET(Begin(riscv)))

IFetch(thisPC, complete, fetch) ==
    Apply("riscvIFetchExcept", thisPC, IF complete THEN 1 ELSE 0, fetch,
          riscvIFetchExcept(Begin(riscv), thisPC, complete, fetch))

(* The software-pending register is written and riscvUpdatePending called *)

UpdatePending(swip) ==
    Apply("riscvUpdatePending", 0, 0, "",
          riscvUpdatePending([Begin(riscv) EXCEPT !.swip = swip]))

InterruptIDPort(offset, newValue) ==
    Apply("interruptIDPortCB", offset, newValue, "",
          interruptIDPortCB(Begin(riscv), offset, newValue))

TakeMemoryException(exception, tval) ==
    Apply("riscvTakeMemoryException", exception, tval, "",
          riscvTakeMemoryException(Begin(riscv), exception, tval))

Bit(b) == IF b THEN 1 ELSE 0

DRET == Apply("riscvDRET", 0, 0, "", riscvDRET(Begin(riscv)))

EBREAK == Apply("riscvEBREAK", 0, 0, "", riscvEBREAK(Begin(riscv)))

StepExcept ==
    Apply("riscvStepExcept", 0, 0, "", riscvStepExcept(Begin(riscv)))

WFI == Apply("riscvWFI", 0, 0, "", riscvWFI(Begin(riscv)))

SetDM(DM) ==
    Apply("riscvSetDM", Bit(DM), 0, "", riscvSetDM(Begin(riscv), DM))

SetDMStall(DMStall) ==
    Apply("riscvSetDMStall", Bit(DMStall), 0, "",
          riscvSetDMStall(Begin(riscv), DMStall))

Reset == Apply("riscvReset", 0, 0, "", riscvReset(Begin(riscv)))

ResetPort(newValue) ==
    Apply("resetPortCB", Bit(newValue), 0, "",
          resetPortCB(Begin(riscv), newValue))

NMIPort(newValue) ==
    Apply("nmiPortCB", Bit(newValue), 0, "",
          nmiPortCB(Begin(riscv), newValue))

HaltreqPort(newValue) ==
    Apply("haltreqPortCB", Bit(newValue), 0, "",
          haltreqPortCB(Begin(riscv), newValue))

ResethaltreqPort(newValue) ==
    Apply("resethaltreqPortCB", Bit(newValue), 0, "",
          resethaltreqPortCB(Begin(riscv), newValue))

InterruptPort(index, newValue) ==
    Apply("interruptPortCB", index, Bit(newValue), "",
          interruptPortCB(Begin(riscv), index, newValue))

(* The host steps a hart (fetches and executes instructions) only while it *)
(* is not halted                                                           *)

Running == ~riscv.halted

----------------------------------------------------------------------------
(* TRAP ENTRY: one riscvTakeException from any hart state *)

(* Operations applied in one behaviour of SpecTrap *)

MaxOpsTrap == 1

(* Delegation bits that software has set: Illegal Instruction among the    *)
(* exceptions, Supervisor External among the interrupts                    *)

TrapExcDeleg == SUBSET {riscv_E_IllegalInstruction}

TrapIntDeleg == SUBSET {INT_INDEX(riscv_E_SExternalInterrupt)}

(* Exceptions and interrupts raised, with the tval passed *)

TrapCodes ==
    { riscv_E_IllegalInstruction, riscv_E_Breakpoint,
      riscv_E_LoadAccessFault,
      riscv_E_MSWInterrupt, riscv_E_SExternalInterrupt }

TrapTvals == {0, 5}

(* Trap vector bases of the three modes, as the BASE field of xtvec *)

TvecBASE ==
    [m \in Modes |->
        CASE m = RISCV_MODE_USER -> 4
          [] m = RISCV_MODE_SUPERVISOR -> 8
          [] OTHER -> 12]

(* External interrupt ID latched for Supervisor, or none *)

ExtIntIDs == {0, 7}

(* Debug state of the hart: running, or in Debug mode (entered by a halt  *)
(* request from Machine mode) under either Debug policy, stalled or        *)
(* released by riscvSetDMStall to execute the program buffer               *)

DebugStates ==
    {[DM |-> FALSE, DMStall |-> FALSE, debug_mode |-> RVDM_HALT]}
    \cup [DM : {TRUE}, DMStall : BOOLEAN,
          debug_mode : {RVDM_HALT, RVDM_INTERRUPT}]

InDebugState(r, d) ==
    [r EXCEPT !.DM = d.DM, !.DMPort = d.DM, !.DMStall = d.DMStall,
              !.debug_mode = d.debug_mode,
              !.disable = IF d.DMStall /\ d.debug_mode = RVDM_HALT
                          THEN RVD_DEBUG ELSE {},
              !.halted = d.DMStall /\ d.debug_mode = RVDM_HALT,
              !.dcsr.cause = IF d.DM THEN DMC_HALTREQ ELSE DMC_NONE,
              !.dcsr.prv = RISCV_MODE_MACHINE,
              !.dpc = 2]

(* The delegation registers exist only on a hart with Supervisor mode *)

DelegOf(a, values) == IF a.archS THEN values ELSE {{}}

InitTrap ==
    /\ hist = <<>>
    /\ \E a \in Archs, d \in DebugStates, ie \in [Modes -> BOOLEAN],
          tmode \in {riscv_int_Direct, riscv_int_Vectored},
          imode \in {riscv_int_Direct, riscv_int_Vectored},
          id \in ExtIntIDs, ds \in {0, 1} :
        \E mode \in (IF d.DM THEN {RISCV_MODE_MACHINE} ELSE ModesOf(a)),
           medeleg \in DelegOf(a, TrapExcDeleg),
           sedeleg \in DelegOf(a, TrapExcDeleg),
           mideleg \in DelegOf(a, TrapIntDeleg),
           sideleg \in DelegOf(a, TrapIntDeleg) :
            riscv = [InDebugState(Hart0, d) EXCEPT
                        !.archS = a.archS, !.archU = a.archU,
                        !.mode = mode,
                        !.IE = ie, !.PIE = [m \in Modes |-> ~ie[m]],
                        !.MPP = RISCV_MODE_USER,
                        !.medeleg = medeleg, !.sedeleg = sedeleg,
                        !.mideleg = mideleg, !.sideleg = sideleg,
                        !.tvec = [m \in Modes |->
                                    [BASE |-> TvecBASE[m], MODE |-> tmode]],
                        !.IMode = [m \in Modes |-> imode],
                        !.extInt[RISCV_MODE_SUPERVISOR] = id,
                        !.PC = 10, !.jumpBase = 22, !.dsOffset = ds,
                        !.exclusiveTag = TRUE, !.exception = 1]

NextTrap ==
    /\ Len(hist) < MaxOpsTrap
    /\ \E e \in TrapCodes, tval \in TrapTvals : TakeException(e, tval)

SpecTrap == InitTrap /\ [][NextTrap]_vars

(* A trap was taken outside Debug mode by the last operation *)

TrapTaken == Op.name = "riscvTakeException" /\ ~Pre.DM

(* The code reported in xcause for exception e: the external interrupt ID  *)
(* latched for the interrupt's mode if there is one, else the bare code    *)

ExtIntOffset(e) ==
    CASE e = riscv_E_UExternalInterrupt -> RISCV_MODE_USER
      [] e = riscv_E_SExternalInterrupt -> RISCV_MODE_SUPERVISOR
      [] e = riscv_E_MExternalInterrupt -> RISCV_MODE_MACHINE
      [] OTHER -> -1

BareCode(e) == IF e >= riscv_E_Interrupt THEN e - riscv_E_Interrupt ELSE e

ReportedCode(r, e) ==
    IF ExtIntOffset(e) # -1 /\ r.extInt[ExtIntOffset(e)] # 0
    THEN r.extInt[ExtIntOffset(e)]
    ELSE BareCode(e)

(* C2: a trap taken outside Debug mode to mode X from mode Y leaves        *)
(* xPIE = the old xIE, xIE = 0, xcause = the (possibly overridden) code    *)
(* and the interrupt flag, xepc = the return address masked by the epc     *)
(* mask, xtval = the tval argument, and SPP = Y (X Supervisor) or MPP = Y  *)
(* (X Machine).                                                            *)

C2_TrapEntryState ==
    TrapTaken =>
        LET X == riscv.mode
            Y == Pre.mode
            e == Op.a
        IN  /\ riscv.PIE[X] = Pre.IE[X]
            /\ riscv.IE[X] = FALSE
            /\ riscv.cause[X].ExceptionCode = ReportedCode(Pre, e)
            /\ riscv.cause[X].Interrupt = (e >= riscv_E_Interrupt)
            /\ riscv.epc[X] = ClearLow(getEPC(Pre), epcMaskLow(Pre))
            /\ riscv.tval[X] = Op.b
            /\ (X = RISCV_MODE_SUPERVISOR => riscv.SPP = Y)
            /\ (X = RISCV_MODE_MACHINE => riscv.MPP = Y)

C2_Witness ==
    /\ TrapTaken
    /\ Op.a = riscv_E_SExternalInterrupt
    /\ Op.b = 5
    /\ Pre.mode = RISCV_MODE_USER
    /\ riscv.mode = RISCV_MODE_SUPERVISOR
    /\ Pre.IE[RISCV_MODE_SUPERVISOR]
    /\ Pre.dsOffset = 1
    /\ riscv.cause[RISCV_MODE_SUPERVISOR] =
            [ExceptionCode |-> 7, Interrupt |-> TRUE]

(* C3: the handler address is base = xtvec.BASE << 2 for an exception or   *)
(* in direct mode and base + 4*code for an interrupt in vectored mode,     *)
(* the mode being xtvec.MODE when non-zero and the hart's default for the  *)
(* destination mode otherwise.                                             *)

C3_HandlerAddress ==
    TrapTaken =>
        LET X == riscv.mode
            e == Op.a
            base == Pre.tvec[X].BASE * 4
            effective == IF Pre.tvec[X].MODE # 0 THEN Pre.tvec[X].MODE
                         ELSE Pre.IMode[X]
        IN  riscv.PC = IF e < riscv_E_Interrupt
                          \/ effective = riscv_int_Direct
                       THEN base
                       ELSE base + 4 * (e - riscv_E_Interrupt)

C3_Witness ==
    /\ TrapTaken
    /\ Op.a = riscv_E_MSWInterrupt
    /\ Pre.tvec[riscv.mode].MODE = riscv_int_Direct
    /\ Pre.IMode[riscv.mode] = riscv_int_Vectored
    /\ riscv.PC = Pre.tvec[riscv.mode].BASE * 4 + 12

(* C4: in Debug mode riscvTakeException takes no trap: nothing changes but *)
(* the Debug stall (DMStall, the Debug halt reason, the host's halt) and   *)
(* the host calls made; the Debug flag stays set, dcsr and dpc are kept,   *)
(* the repeat is aborted and the hart is halted or interrupted again.      *)

C4_NoTrapInDebugMode ==
    (Op.name = "riscvTakeException" /\ Pre.DM) =>
        /\ [riscv EXCEPT !.DMStall = Pre.DMStall, !.disable = Pre.disable,
                         !.halted = Pre.halted, !.ev = Pre.ev] = Pre
        /\ riscv.DM
        /\ riscv.DMStall
        /\ CalledWith(riscv, "vmirtAbortRepeat", 0)
        /\ ~Called(riscv, "takeTrap")
        /\ IF Pre.debug_mode = RVDM_INTERRUPT
           THEN /\ riscv.disable = Pre.disable
                /\ Called(riscv, "vmirtInterrupt")
           ELSE /\ riscv.disable = Pre.disable \cup RVD_DEBUG
                /\ riscv.halted
                /\ ~Called(riscv, "vmirtInterrupt")

C4_Witness ==
    /\ Op.name = "riscvTakeException"
    /\ Op.a = riscv_E_IllegalInstruction
    /\ Pre.DM
    /\ ~Pre.DMStall
    /\ ~Pre.halted
    /\ riscv.halted
    /\ riscv.dcsr.cause = DMC_HALTREQ

----------------------------------------------------------------------------
(* DELEGATION: the destination mode of a trap, over exception codes and    *)
(* interrupt numbers on both sides of bit 32 of the delegation registers   *)

(* Operations applied in one behaviour of SpecDeleg *)

MaxOpsDeleg == 1

(* Local interrupt 17 is interrupt number 33, bit 33 of mip and mideleg *)

LocalInterrupt17 == riscv_E_LocalInterrupt + 17

DelegCodes ==
    { riscv_E_IllegalInstruction, riscv_E_EnvironmentCallFromUMode,
      riscv_E_SSWInterrupt, riscv_E_LocalInterrupt, LocalInterrupt17 }

DelegExcBits ==
    SUBSET {riscv_E_IllegalInstruction, riscv_E_EnvironmentCallFromUMode}

DelegIntBits ==
    SUBSET { INT_INDEX(riscv_E_SSWInterrupt),
             INT_INDEX(riscv_E_LocalInterrupt),
             INT_INDEX(LocalInterrupt17) }

InitDeleg ==
    /\ hist = <<>>
    /\ \E a \in Archs, wraps \in BOOLEAN :
        \E mode \in ModesOf(a),
           medeleg \in DelegOf(a, DelegExcBits),
           sedeleg \in DelegOf(a, DelegExcBits),
           mideleg \in DelegOf(a, DelegIntBits),
           sideleg \in DelegOf(a, DelegIntBits) :
            riscv = [Hart0 EXCEPT
                        !.archS = a.archS, !.archU = a.archU,
                        !.mode = mode,
                        !.shiftWraps = wraps,
                        !.medeleg = medeleg, !.sedeleg = sedeleg,
                        !.mideleg = mideleg, !.sideleg = sideleg,
                        !.tvec = [m \in Modes |->
                                    [BASE |-> TvecBASE[m],
                                     MODE |-> riscv_int_Direct]],
                        !.PC = 10]

NextDeleg ==
    /\ Len(hist) < MaxOpsDeleg
    /\ \E e \in DelegCodes : TakeException(e, 0)

SpecDeleg == InitDeleg /\ [][NextDeleg]_vars

(* The mode D that the delegation registers give for exception e: Machine  *)
(* when its bit is clear in medeleg / mideleg, Supervisor when it is set   *)
(* there and clear in sedeleg / sideleg, User when it is set in both       *)

DelegatedMode(r, e) ==
    LET isInt == e >= riscv_E_Interrupt
        code  == BareCode(e)
        m     == IF isInt THEN r.mideleg ELSE r.medeleg
        s     == IF isInt THEN r.sideleg ELSE r.sedeleg
    IN  IF code \notin m THEN RISCV_MODE_MACHINE
        ELSE IF code \notin s THEN RISCV_MODE_SUPERVISOR
        ELSE RISCV_MODE_USER

(* C1: for every exception and interrupt code the destination mode of a    *)
(* trap is max(current mode, D), D being the mode given by the delegation  *)
(* registers; so outside Debug mode mode' >= mode after riscvTakeException.*)

C1_DestinationIsMaxOfCurrentAndDelegated ==
    TrapTaken =>
        /\ riscv.mode = Max(Pre.mode, DelegatedMode(Pre, Op.a))
        /\ riscv.mode >= Pre.mode

(* C1, second sentence alone: a trap never lowers the privilege mode *)

C1_ModeNeverLowered == TrapTaken => riscv.mode >= Pre.mode

(* C1 for the codes below 32, whose bit an Uns32 mask holds *)

C1_Below32 ==
    (TrapTaken /\ BareCode(Op.a) < Uns32Bits) =>
        riscv.mode = Max(Pre.mode, DelegatedMode(Pre, Op.a))

(* Local interrupt 17, delegated to Supervisor by mideleg bit 33, taken in *)
(* User mode: the trap goes to Machine mode                                *)

C1_Witness ==
    /\ TrapTaken
    /\ Op.a = LocalInterrupt17
    /\ Pre.mode = RISCV_MODE_USER
    /\ Pre.mideleg = {INT_INDEX(LocalInterrupt17)}
    /\ Pre.sideleg = {}
    /\ riscv.mode = RISCV_MODE_MACHINE

----------------------------------------------------------------------------
(* INTERRUPT ARBITRATION: one instruction fetch with interrupts pending    *)

(* Operations applied in one behaviour of SpecArb *)

MaxOpsArb == 1

(* Interrupts wired to the hart: Supervisor software, Machine software,    *)
(* Machine timer, local interrupts 0 and 17                                *)

ArbInts ==
    { INT_INDEX(riscv_E_SSWInterrupt), INT_INDEX(riscv_E_MSWInterrupt),
      INT_INDEX(riscv_E_MTimerInterrupt), INT_INDEX(riscv_E_LocalInterrupt),
      INT_INDEX(LocalInterrupt17) }

(* Values of mie: everything enabled, or the Machine timer disabled *)

ArbEnables == {ArbInts, ArbInts \ {INT_INDEX(riscv_E_MTimerInterrupt)}}

(* Values of mideleg and sideleg (the Machine timer is never delegated) *)

ArbMideleg == SUBSET (ArbInts \ {INT_INDEX(riscv_E_MTimerInterrupt)})

ArbSideleg == SUBSET {INT_INDEX(riscv_E_SSWInterrupt)}

ArbDebugStates ==
    {d \in DebugStates : d.debug_mode = RVDM_HALT /\ ~d.DMStall}

InitArb ==
    /\ hist = <<>>
    /\ \E a \in Archs, d \in ArbDebugStates, wraps \in BOOLEAN,
          ie \in [Modes -> BOOLEAN], mip \in SUBSET ArbInts,
          mie \in ArbEnables :
        \E mode \in (IF d.DM THEN {RISCV_MODE_MACHINE} ELSE ModesOf(a)),
           mideleg \in DelegOf(a, ArbMideleg),
           sideleg \in DelegOf(a, ArbSideleg) :
            riscv = [InDebugState(Hart0, d) EXCEPT
                        !.archS = a.archS, !.archU = a.archU,
                        !.mode = mode,
                        !.shiftWraps = wraps,
                        !.IE = ie,
                        !.mie = mie, !.mip = mip, !.ip = mip,
                        !.mideleg = mideleg, !.sideleg = sideleg,
                        !.tvec = [m \in Modes |->
                                    [BASE |-> TvecBASE[m],
                                     MODE |-> riscv_int_Direct]],
                        !.PC = 10]

NextArb ==
    /\ Len(hist) < MaxOpsArb
    /\ \E complete \in BOOLEAN : IFetch(riscv.PC, complete, "executable")

SpecArb == InitArb /\ [][NextArb]_vars

(* The mode that owns interrupt i by the delegation registers, and whether *)
(* that mode's interrupts are enabled in the hart's current mode           *)

OwnerMode(r, i) == DelegatedMode(r, riscv_E_Interrupt + i)

EffectiveEnable(r, m) == r.mode < m \/ (r.mode = m /\ r.IE[m])

PendingAndEnabled(r) ==
    IF r.DM THEN {}
    ELSE {i \in r.mie \cap r.mip : EffectiveEnable(r, OwnerMode(r, i))}

(* The last operation was a completed fetch that delivered an interrupt *)

InterruptDelivered ==
    /\ Op.name = "riscvIFetchExcept"
    /\ Called(riscv, "doInterrupt")

Delivered == riscv.exception - riscv_E_Interrupt

(* The mode interrupt i is destined for: the more privileged of the        *)
(* current mode and its owner by delegation                                *)

DestinationMode(r, i) == Max(r.mode, OwnerMode(r, i))

(* The fixed priority ranks, lowest first; an interrupt not listed has     *)
(* rank 0                                                                  *)

RankOrder ==
    << riscv_E_UTimerInterrupt, riscv_E_USWInterrupt,
       riscv_E_UExternalInterrupt, riscv_E_STimerInterrupt,
       riscv_E_SSWInterrupt, riscv_E_SExternalInterrupt,
       riscv_E_MTimerInterrupt, riscv_E_MSWInterrupt,
       riscv_E_MExternalInterrupt >>

Rank(i) ==
    IF \E k \in 1 .. Len(RankOrder) : RankOrder[k] = riscv_E_Interrupt + i
    THEN CHOOSE k \in 1 .. Len(RankOrder) :
            RankOrder[k] = riscv_E_Interrupt + i
    ELSE 0

(* C6: of the pending-and-enabled interrupts the one delivered is destined *)
(* for the most privileged mode, whatever the ranks and bit positions.     *)

C6_HigherDestinationModeWins ==
    InterruptDelivered =>
        /\ Delivered \in PendingAndEnabled(Pre)
        /\ \A i \in PendingAndEnabled(Pre) :
                DestinationMode(Pre, i) <= DestinationMode(Pre, Delivered)

(* C6 for masks within the low 32 bits *)

C6_Below32 ==
    (InterruptDelivered /\ Pre.mie \cap Pre.mip \subseteq 0 .. Uns32Bits - 1)
        => /\ Delivered \in PendingAndEnabled(Pre)
           /\ \A i \in PendingAndEnabled(Pre) :
                DestinationMode(Pre, i) <= DestinationMode(Pre, Delivered)

(* Supervisor software interrupt (delegated) and local interrupt 17 (not   *)
(* delegated, so destined for Machine mode) pending in User mode: the      *)
(* Supervisor software interrupt is delivered                              *)

C6_Witness ==
    /\ InterruptDelivered
    /\ Pre.mode = RISCV_MODE_USER
    /\ Pre.mie \cap Pre.mip =
            {INT_INDEX(riscv_E_SSWInterrupt), INT_INDEX(LocalInterrupt17)}
    /\ Pre.mideleg = {INT_INDEX(riscv_E_SSWInterrupt)}
    /\ Pre.sideleg = {}
    /\ riscv.exception = riscv_E_SSWInterrupt
    /\ riscv.mode = RISCV_MODE_SUPERVISOR

(* The pending-and-enabled interrupts sharing the highest destination mode *)

TopInterrupts(r) ==
    {i \in PendingAndEnabled(r) :
        \A j \in PendingAndEnabled(r) :
            DestinationMode(r, j) <= DestinationMode(r, i)}

(* C7: among the interrupts sharing the highest destination mode the one   *)
(* delivered has the highest fixed rank and, among those of that rank, the *)
(* highest interrupt number.                                               *)

C7_HighestRankThenNumberWins ==
    InterruptDelivered =>
        /\ Delivered \in TopInterrupts(Pre)
        /\ \A i \in TopInterrupts(Pre) :
                \/ Rank(i) < Rank(Delivered)
                \/ Rank(i) = Rank(Delivered) /\ i <= Delivered

(* C7 for masks within the low 32 bits *)

C7_Below32 ==
    (InterruptDelivered /\ Pre.mie \cap Pre.mip \subseteq 0 .. Uns32Bits - 1)
        => /\ Delivered \in TopInterrupts(Pre)
           /\ \A i \in TopInterrupts(Pre) :
                \/ Rank(i) < Rank(Delivered)
                \/ Rank(i) = Rank(Delivered) /\ i <= Delivered

(* Supervisor software interrupt and local interrupt 17, both delegated to *)
(* Supervisor, pending in User mode: local interrupt 17, of rank 0, is     *)
(* delivered, and to Machine mode                                          *)

C7_Witness ==
    /\ InterruptDelivered
    /\ Pre.mode = RISCV_MODE_USER
    /\ Pre.mie \cap Pre.mip =
            {INT_INDEX(riscv_E_SSWInterrupt), INT_INDEX(LocalInterrupt17)}
    /\ Pre.mideleg =
            {INT_INDEX(riscv_E_SSWInterrupt), INT_INDEX(LocalInterrupt17)}
    /\ Pre.sideleg = {}
    /\ riscv.exception = LocalInterrupt17
    /\ riscv.mode = RISCV_MODE_MACHINE

(* C8: the mask of pending-and-enabled interrupts is empty in Debug mode   *)
(* and otherwise mie AND mip less the interrupts owned by a mode whose     *)
(* effective enable is false; a completed fetch with no halt request       *)
(* delivers an interrupt exactly when that mask is not empty.              *)

C8_PendingAndEnabledMask ==
    /\ getPendingAndEnabledInterrupts(riscv) = PendingAndEnabled(riscv)
    /\ (Op.name = "riscvIFetchExcept" /\ Op.b = 1
        /\ ~Pre.netValue.resethaltreqS /\ ~Pre.netValue.haltreq)
            => (Called(riscv, "doInterrupt") <=> PendingAndEnabled(Pre) # {})

C8_Witness ==
    /\ InterruptDelivered
    /\ Pre.mode = RISCV_MODE_SUPERVISOR
    /\ ~Pre.IE[RISCV_MODE_SUPERVISOR]
    /\ Pre.IE[RISCV_MODE_MACHINE]
    /\ Pre.mie \cap Pre.mip =
            {INT_INDEX(riscv_E_SSWInterrupt), INT_INDEX(LocalInterrupt17)}
    /\ PendingAndEnabled(Pre) = {INT_INDEX(LocalInterrupt17)}
    /\ riscv.exception = LocalInterrupt17

----------------------------------------------------------------------------
(* INSTRUCTION FETCH: one fetch with halt requests and interrupts pending  *)

(* Operations applied in one behaviour of SpecFetch *)

MaxOpsFetch == 1

FetchInts ==
    {INT_INDEX(riscv_E_SSWInterrupt), INT_INDEX(riscv_E_MSWInterrupt)}

FetchMideleg == SUBSET {INT_INDEX(riscv_E_SSWInterrupt)}

(* What the host finds at the fetch address *)

FetchOutcomes == {"executable", "vmmiss", "buserror"}

InitFetch ==
    /\ hist = <<>>
    /\ \E a \in Archs, d \in DebugStates, ie \in [Modes -> BOOLEAN],
          latch \in BOOLEAN, haltreq \in BOOLEAN,
          mip \in SUBSET FetchInts :
        \E mode \in (IF d.DM THEN {RISCV_MODE_MACHINE} ELSE ModesOf(a)),
           mideleg \in DelegOf(a, FetchMideleg) :
            riscv = [InDebugState(Hart0, d) EXCEPT
                        !.archS = a.archS, !.archU = a.archU,
                        !.mode = mode,
                        !.IE = ie,
                        !.mie = FetchInts, !.mip = mip, !.ip = mip,
                        !.mideleg = mideleg,
                        !.netValue.resethaltreqS = latch,
                        !.netValue.resethaltreq = latch,
                        !.netValue.haltreq = haltreq,
                        !.tvec = [m \in Modes |->
                                    [BASE |-> TvecBASE[m],
                                     MODE |-> riscv_int_Direct]],
                        !.PC = 10]

NextFetch ==
    /\ Len(hist) < MaxOpsFetch
    /\ \E complete \in BOOLEAN, fetch \in FetchOutcomes :
            IFetch(riscv.PC, complete, fetch)

SpecFetch == InitFetch /\ [][NextFetch]_vars

(* The four things a fetch can action, as the calls the handler made *)

ResetHaltEntry == CalledWith(riscv, "enterDM", DMC_RESETHALTREQ)

HaltRequestEntry == CalledWith(riscv, "enterDM", DMC_HALTREQ)

InterruptDelivery == Called(riscv, "doInterrupt")

FetchValidation == Called(riscv, "validateFetchAddress")

FetchActioned ==
    {k \in {"resethalt", "haltreq", "interrupt", "validate"} :
        \/ k = "resethalt" /\ ResetHaltEntry
        \/ k = "haltreq" /\ HaltRequestEntry
        \/ k = "interrupt" /\ InterruptDelivery
        \/ k = "validate" /\ FetchValidation}

(* C9: a completed fetch actions exactly one of Debug entry for the reset  *)
(* halt latch, Debug entry for haltreq outside Debug mode, delivery of the *)
(* arbitrated interrupt, and fetch validation: the first of them, in that  *)
(* order, whose condition holds.                                           *)

C9_FetchPriority ==
    (Op.name = "riscvIFetchExcept" /\ Op.b = 1) =>
        IF Pre.netValue.resethaltreqS
        THEN /\ FetchActioned = {"resethalt"}
             /\ ~riscv.netValue.resethaltreqS
             /\ riscv.DM
             /\ ~Pre.DM => riscv.dcsr.cause = DMC_RESETHALTREQ
        ELSE IF Pre.netValue.haltreq /\ ~Pre.DM
        THEN /\ FetchActioned = {"haltreq"}
             /\ riscv.DM
             /\ riscv.dcsr.cause = DMC_HALTREQ
        ELSE IF PendingAndEnabled(Pre) # {}
        THEN /\ FetchActioned = {"interrupt"}
             /\ ~riscv.DM
             /\ Delivered \in PendingAndEnabled(Pre)
        ELSE /\ FetchActioned = {"validate"}
             /\ riscv.DM = Pre.DM

C9_Witness ==
    /\ Op.name = "riscvIFetchExcept"
    /\ Op.b = 1
    /\ ~Pre.netValue.resethaltreqS
    /\ Pre.netValue.haltreq
    /\ ~Pre.DM
    /\ PendingAndEnabled(Pre) # {}
    /\ Op.c = "vmmiss"
    /\ riscv.DM
    /\ riscv.dcsr.cause = DMC_HALTREQ
    /\ riscv.exception = Pre.exception

----------------------------------------------------------------------------
(* EXCEPTION RETURN: traps and returns, two operations deep                *)

(* Operations applied in one behaviour of SpecRet *)

MaxOpsRet == 2

(* Previous-enable bits: the complement of the enables, all set, all clear *)

RetPIEs(ie) ==
    { [m \in Modes |-> ~ie[m]], [m \in Modes |-> TRUE],
      [m \in Modes |-> FALSE] }

(* Values software can leave in mstatus.MPP, Hypervisor included *)

RetMPPs ==
    { RISCV_MODE_USER, RISCV_MODE_SUPERVISOR, RISCV_MODE_HYPERVISOR,
      RISCV_MODE_MACHINE }

(* Compressed instructions enabled or not, with a PC and a jump base so    *)
(* aligned                                                                 *)

RetAlignments ==
    { [curC |-> TRUE, PC |-> 10, jumpBase |-> 22],
      [curC |-> FALSE, PC |-> 12, jumpBase |-> 24] }

RetCodes == {riscv_E_IllegalInstruction, riscv_E_MSWInterrupt}

InitRet ==
    /\ hist = <<>>
    /\ \E a \in Archs, d \in ArbDebugStates, ie \in [Modes -> BOOLEAN],
          MPP \in RetMPPs, al \in RetAlignments, ds \in {0, 1} :
        \E mode \in (IF d.DM THEN {RISCV_MODE_MACHINE} ELSE ModesOf(a)),
           pie \in RetPIEs(ie),
           medeleg \in DelegOf(a, TrapExcDeleg),
           sedeleg \in DelegOf(a, TrapExcDeleg) :
            riscv = [InDebugState(Hart0, d) EXCEPT
                        !.archS = a.archS, !.archU = a.archU,
                        !.mode = mode,
                        !.IE = ie, !.PIE = pie,
                        !.MPP = MPP, !.SPP = MPP % 2,
                        !.medeleg = medeleg, !.sedeleg = sedeleg,
                        !.tvec = [m \in Modes |->
                                    [BASE |-> TvecBASE[m],
                                     MODE |-> riscv_int_Direct]],
                        !.epc = [m \in Modes |-> 4 * TvecBASE[m] + 100],
                        !.curC = al.curC,
                        !.PC = al.PC, !.jumpBase = al.jumpBase,
                        !.dsOffset = ds,
                        !.numCBs = 1,
                        !.exclusiveTag = TRUE]

(* The decoder raises Illegal Instruction instead of calling a return      *)
(* handler of a mode above the current one or of a mode the hart lacks     *)

NextRet ==
    /\ Len(hist) < MaxOpsRet
    /\ \/ \E e \in RetCodes : TakeException(e, 0)
       \/ riscv.mode = RISCV_MODE_MACHINE /\ MRET
       \/ riscv.archS /\ riscv.mode >= RISCV_MODE_SUPERVISOR /\ SRET
       \/ riscv.archU /\ URET

SpecRet == InitRet /\ [][NextRet]_vars

(* The return instruction of mode X *)

ReturnOf(X) ==
    CASE X = RISCV_MODE_MACHINE -> "riscvMRET"
      [] X = RISCV_MODE_SUPERVISOR -> "riscvSRET"
      [] OTHER -> "riscvURET"

(* The last two operations were a trap taken outside Debug mode and the    *)
(* return of the mode the trap went to                                     *)

RoundTrip ==
    /\ Op2.name = "riscvTakeException"
    /\ ~Op2.pre.DM
    /\ Op.name = ReturnOf(Pre.mode)

(* C5: a trap to mode X followed at once by the return of mode X restores  *)
(* the mode, X's interrupt enable and the resume address to what they were *)
(* before the trap, and leaves X's previous enable at 1 and X's previous   *)
(* privilege at the minimum implemented mode.                              *)

C5_RoundTrip ==
    RoundTrip =>
        LET X == Pre.mode
            before == Op2.pre
        IN  /\ riscv.mode = before.mode
            /\ riscv.IE[X] = before.IE[X]
            /\ riscv.PC = getEPC(before)
            /\ riscv.PIE[X] = TRUE
            /\ (X = RISCV_MODE_MACHINE =>
                    riscv.MPP = riscvGetMinMode(before))
            /\ (X = RISCV_MODE_SUPERVISOR =>
                    riscv.SPP = riscvGetMinMode(before))

C5_Witness ==
    /\ RoundTrip
    /\ Op.name = "riscvSRET"
    /\ Op2.pre.mode = RISCV_MODE_USER
    /\ Op2.pre.IE[RISCV_MODE_SUPERVISOR]
    /\ ~Op2.pre.PIE[RISCV_MODE_SUPERVISOR]
    /\ Op2.pre.dsOffset = 1
    /\ ~Pre.IE[RISCV_MODE_SUPERVISOR]
    /\ riscv.mode = RISCV_MODE_USER
    /\ riscv.IE[RISCV_MODE_SUPERVISOR]
    /\ riscv.PC = 22

(* C10: outside Debug mode MRET (SRET) sets MIE (SIE) to MPIE (SPIE), the  *)
(* previous enable to 1 and MPP (SPP) to the minimum implemented mode, and *)
(* switches to the saved previous privilege if the hart implements it and  *)
(* to the minimum implemented mode if not; URET sets UIE to UPIE, UPIE to  *)
(* 1 and resumes in User mode.                                             *)

C10_ReturnEffects ==
    /\ (Op.name = "riscvMRET" /\ ~Pre.DM) =>
        /\ riscv.IE[RISCV_MODE_MACHINE] = Pre.PIE[RISCV_MODE_MACHINE]
        /\ riscv.PIE[RISCV_MODE_MACHINE] = TRUE
        /\ riscv.MPP = riscvGetMinMode(Pre)
        /\ riscv.mode = IF riscvHasMode(Pre, Pre.MPP) THEN Pre.MPP
                        ELSE riscvGetMinMode(Pre)
    /\ (Op.name = "riscvSRET" /\ ~Pre.DM) =>
        /\ riscv.IE[RISCV_MODE_SUPERVISOR] = Pre.PIE[RISCV_MODE_SUPERVISOR]
        /\ riscv.PIE[RISCV_MODE_SUPERVISOR] = TRUE
        /\ riscv.SPP = riscvGetMinMode(Pre)
        /\ riscv.mode = IF riscvHasMode(Pre, Pre.SPP) THEN Pre.SPP
                        ELSE riscvGetMinMode(Pre)
    /\ (Op.name = "riscvURET" /\ ~Pre.DM) =>
        /\ riscv.IE[RISCV_MODE_USER] = Pre.PIE[RISCV_MODE_USER]
        /\ riscv.PIE[RISCV_MODE_USER] = TRUE
        /\ riscv.mode = RISCV_MODE_USER

C10_Witness ==
    /\ Op.name = "riscvMRET"
    /\ ~Pre.DM
    /\ Pre.archU
    /\ Pre.MPP = RISCV_MODE_HYPERVISOR
    /\ Pre.IE[RISCV_MODE_MACHINE]
    /\ ~Pre.PIE[RISCV_MODE_MACHINE]
    /\ riscv.mode = RISCV_MODE_USER
    /\ riscv.MPP = RISCV_MODE_USER
    /\ ~riscv.IE[RISCV_MODE_MACHINE]
    /\ riscv.PIE[RISCV_MODE_MACHINE]

(* The last operation was a return executed in Debug mode *)

ReturnInDebugMode ==
    /\ Op.name \in {"riscvMRET", "riscvSRET", "riscvURET"}
    /\ Pre.DM

(* C11: in Debug mode MRET, SRET and URET change nothing (mode, PC, status *)
(* bits, reservation, halt mask, Debug flag and every other field of the   *)
(* hart) and make no host call: no return notifier, no interrupt check.    *)

C11_ReturnInDebugModeIsNoOp ==
    ReturnInDebugMode =>
        /\ [riscv EXCEPT !.ev = Pre.ev] = Pre
        /\ riscv.ev = <<>>

C11_Witness ==
    /\ Op.name = "riscvMRET"
    /\ Pre.DM
    /\ Pre.numCBs = 1
    /\ Pre.exclusiveTag
    /\ Pre.MPP = RISCV_MODE_USER
    /\ Pre.PIE[RISCV_MODE_MACHINE] # Pre.IE[RISCV_MODE_MACHINE]
    /\ Pre.epc[RISCV_MODE_MACHINE] # Pre.PC
    /\ riscv.mode = RISCV_MODE_MACHINE
    /\ riscv.PC = Pre.PC
    /\ riscv.DM

----------------------------------------------------------------------------
(* DEBUG MODE ENTRY AND EXIT: one Debug operation from any hart state      *)

(* Operations applied in one behaviour of SpecDbg *)

MaxOpsDbg == 1

(* The hart is running (under either Debug policy, maybe halted in WFI) or *)
(* executes the program buffer in Debug mode, entered from mode prv        *)

InitDbg ==
    /\ hist = <<>>
    /\ \E a \in Archs, DM \in BOOLEAN,
          policy \in {RVDM_HALT, RVDM_INTERRUPT},
          eb \in {{}, {RISCV_MODE_USER}, {RISCV_MODE_SUPERVISOR},
                  {RISCV_MODE_MACHINE}, Modes},
          step \in BOOLEAN, haltreq \in BOOLEAN, latch \in BOOLEAN,
          ds \in {0, 1}, wfi \in BOOLEAN :
        \E from \in ModesOf(a),
           medeleg \in (IF DM THEN {{}} ELSE DelegOf(a,
                SUBSET {riscv_E_IllegalInstruction, riscv_E_Breakpoint})),
           sedeleg \in (IF DM THEN {{}} ELSE DelegOf(a,
                SUBSET {riscv_E_IllegalInstruction})) :
            /\ DM => ~wfi
            /\ riscv = [Hart0 EXCEPT
                        !.archS = a.archS, !.archU = a.archU,
                        !.mode = IF DM THEN RISCV_MODE_MACHINE ELSE from,
                        !.DM = DM, !.DMPort = DM,
                        !.debug_mode = policy,
                        !.disable = IF wfi THEN RVD_WFI ELSE {},
                        !.halted = wfi,
                        !.dcsr.prv = IF DM THEN from ELSE RISCV_MODE_MACHINE,
                        !.dcsr.cause = IF DM THEN DMC_STEP ELSE DMC_NONE,
                        !.dcsr.step = step,
                        !.dcsr.ebreaku = RISCV_MODE_USER \in eb,
                        !.dcsr.ebreaks = RISCV_MODE_SUPERVISOR \in eb,
                        !.dcsr.ebreakm = RISCV_MODE_MACHINE \in eb,
                        !.dpc = 2,
                        !.netValue.haltreq = haltreq,
                        !.netValue.resethaltreqS = latch,
                        !.netValue.resethaltreq = latch,
                        !.medeleg = medeleg, !.sedeleg = sedeleg,
                        !.tvec = [m \in Modes |->
                                    [BASE |-> TvecBASE[m],
                                     MODE |-> riscv_int_Direct]],
                        !.PC = 10, !.jumpBase = 22, !.dsOffset = ds,
                        !.numCBs = 1,
                        !.exclusiveTag = TRUE]

NextDbg ==
    /\ Len(hist) < MaxOpsDbg
    /\ \/ Running /\ DRET
       \/ Running /\ EBREAK
       \/ Running /\ StepExcept
       \/ Running /\ \E complete \in BOOLEAN :
                        IFetch(riscv.PC, complete, "executable")
       \/ \E DM \in BOOLEAN : SetDM(DM)

SpecDbg == InitDbg /\ [][NextDbg]_vars

(* C12: DRET outside Debug mode takes an Illegal Instruction trap to the   *)
(* mode that delegation gives, and does nothing of a Debug exit: the Debug *)
(* flag and output stay 0, the mode is not taken from dcsr.prv, the PC not *)
(* from dpc, and the halt mask is not released.                            *)

C12_DRETOutsideDebugMode ==
    (Op.name = "riscvDRET" /\ ~Pre.DM) =>
        LET X == Max(Pre.mode, DelegatedMode(Pre, riscv_E_IllegalInstruction))
        IN  /\ ~riscv.DM
            /\ ~riscv.DMPort
            /\ CalledWith(riscv, "takeTrap", riscv_E_IllegalInstruction)
            /\ riscv.exception = riscv_E_IllegalInstruction
            /\ riscv.mode = X
            /\ riscv.cause[X] =
                [ExceptionCode |-> riscv_E_IllegalInstruction,
                 Interrupt |-> FALSE]
            /\ riscv.epc[X] = getEPC(Pre)
            /\ riscv.PC = 4 * Pre.tvec[X].BASE
            /\ riscv.dcsr = Pre.dcsr
            /\ riscv.dpc = Pre.dpc
            /\ riscv.disable = Pre.disable
            /\ ~Called(riscv, "vmirtWriteNetPort")
            /\ ~Called(riscv, "vmirtSetPC")
            /\ ~Called(riscv, "ERETNotifier")
            /\ ~Called(riscv, "vmirtRestartNext")

C12_Witness ==
    /\ Op.name = "riscvDRET"
    /\ ~Pre.DM
    /\ Pre.mode = RISCV_MODE_USER
    /\ Pre.medeleg = {riscv_E_IllegalInstruction}
    /\ Pre.dcsr.prv = RISCV_MODE_MACHINE
    /\ riscv.mode = RISCV_MODE_SUPERVISOR
    /\ riscv.exception = riscv_E_IllegalInstruction
    /\ riscv.PC # Pre.dpc
    /\ ~riscv.DM

(* The last operation took the hart from Running into Debug mode *)

DebugEntered == hist # <<>> /\ ~Pre.DM /\ riscv.DM

(* The cause of the Debug entry made by the last operation *)

EntryCause ==
    CASE Op.name = "riscvEBREAK" -> DMC_EBREAK
      [] Op.name = "riscvStepExcept" -> DMC_STEP
      [] Op.name = "riscvIFetchExcept" /\ Pre.netValue.resethaltreqS
            -> DMC_RESETHALTREQ
      [] OTHER -> DMC_HALTREQ

(* C13: a Debug entry from Running by halt request, reset-time halt        *)
(* request, single step or EBREAK sets the Debug flag and output, saves    *)
(* the mode in dcsr.prv, the cause in dcsr.cause and the return address in *)
(* dpc, and switches to Machine mode; the halting policy adds the Debug    *)
(* reason to the halt mask, the interrupt policy leaves the mask alone and *)
(* interrupts the hart.  A completed fetch with a halt request and an      *)
(* armed single step do enter.                                             *)

C13_DebugEntry ==
    /\ DebugEntered =>
        /\ riscv.DMPort
        /\ CalledWith(riscv, "vmirtWriteNetPort", 1)
        /\ riscv.dcsr.prv = Pre.mode
        /\ riscv.dcsr.cause = EntryCause
        /\ riscv.dpc = getEPC(Pre)
        /\ riscv.mode = RISCV_MODE_MACHINE
        /\ riscv.DMStall
        /\ IF Pre.debug_mode = RVDM_HALT
           THEN /\ riscv.disable = Pre.disable \cup RVD_DEBUG
                /\ riscv.halted
                /\ ~Called(riscv, "vmirtInterrupt")
           ELSE /\ riscv.disable = Pre.disable
                /\ riscv.halted = Pre.halted
                /\ Called(riscv, "vmirtInterrupt")
    /\ (Op.name = "riscvStepExcept" /\ ~Pre.DM /\ Pre.dcsr.step) => riscv.DM
    /\ (Op.name = "riscvIFetchExcept" /\ Op.b = 1 /\ ~Pre.DM
        /\ (Pre.netValue.resethaltreqS \/ Pre.netValue.haltreq)) => riscv.DM

C13_Witness ==
    /\ DebugEntered
    /\ Op.name = "riscvStepExcept"
    /\ Pre.mode = RISCV_MODE_SUPERVISOR
    /\ Pre.debug_mode = RVDM_INTERRUPT
    /\ Pre.dsOffset = 1
    /\ riscv.dcsr.prv = RISCV_MODE_SUPERVISOR
    /\ riscv.dcsr.cause = DMC_STEP
    /\ riscv.dpc = 22
    /\ riscv.disable = {}

(* C19: EBREAK enters Debug mode with cause EBREAK exactly when the hart   *)
(* is in Debug mode or the dcsr ebreak bit of the current mode is set, and *)
(* otherwise takes a Breakpoint exception with tval = the current PC; in   *)
(* Debug mode the flag stays set and dcsr and dpc are not overwritten.     *)

C19_EBREAK ==
    Op.name = "riscvEBREAK" =>
        LET enable == CASE Pre.mode = RISCV_MODE_USER -> Pre.dcsr.ebreaku
                        [] Pre.mode = RISCV_MODE_SUPERVISOR
                                -> Pre.dcsr.ebreaks
                        [] OTHER -> Pre.dcsr.ebreakm
        IN  IF Pre.DM \/ enable
            THEN /\ riscv.DM
                 /\ CalledWith(riscv, "enterDM", DMC_EBREAK)
                 /\ ~Called(riscv, "takeTrap")
                 /\ riscv.exception = Pre.exception
                 /\ IF Pre.DM
                    THEN /\ riscv.dcsr = Pre.dcsr
                         /\ riscv.dpc = Pre.dpc
                         /\ riscv.mode = Pre.mode
                    ELSE /\ riscv.dcsr.cause = DMC_EBREAK
                         /\ riscv.dcsr.prv = Pre.mode
                         /\ riscv.dpc = getEPC(Pre)
            ELSE /\ ~riscv.DM
                 /\ ~Called(riscv, "enterDM")
                 /\ CalledWith(riscv, "takeTrap", riscv_E_Breakpoint)
                 /\ riscv.exception = riscv_E_Breakpoint
                 /\ riscv.tval[riscv.mode] = Pre.PC
                 /\ riscv.dcsr = Pre.dcsr

C19_Witness ==
    /\ Op.name = "riscvEBREAK"
    /\ ~Pre.DM
    /\ Pre.mode = RISCV_MODE_SUPERVISOR
    /\ Pre.dcsr.ebreakm
    /\ ~Pre.dcsr.ebreaks
    /\ Pre.dsOffset = 1
    /\ ~riscv.DM
    /\ riscv.exception = riscv_E_Breakpoint
    /\ riscv.tval[riscv.mode] = 10

(* EBREAK in Debug mode with no ebreak bit set: the hart stays in Debug    *)
(* mode with dcsr.cause as it was                                          *)

C19_WitnessInDebugMode ==
    /\ Op.name = "riscvEBREAK"
    /\ Pre.DM
    /\ ~Pre.dcsr.ebreakm
    /\ riscv.DM
    /\ riscv.dcsr.cause = DMC_STEP

----------------------------------------------------------------------------
(* WIRES, RESET AND HALT REASONS: one operation of any kind from any state *)

(* Operations applied in one behaviour of SpecWire *)

MaxOpsWire == 1

(* The interrupt input driven in SpecWire *)

WireInt == 7

(* The hart runs, waits in WFI, is held in reset, executes in Debug mode   *)
(* or is stalled there, with any level on the input wires; the reset-time *)
(* halt latch differs from the resethaltreq input                          *)

InitWire ==
    /\ hist = <<>>
    /\ \E a \in Archs, DM \in BOOLEAN, DMStall \in BOOLEAN,
          policy \in {RVDM_HALT, RVDM_INTERRUPT},
          wfi \in BOOLEAN, reset \in BOOLEAN, nmi \in BOOLEAN,
          haltreq \in BOOLEAN, resethaltreq \in BOOLEAN, pend \in BOOLEAN :
        \E from \in ModesOf(a), latch \in {~resethaltreq},
           mie \in {pend} :
            /\ DMStall => DM
            /\ wfi => ~pend
            /\ DM => from = riscvGetMinMode(a)
            /\ LET disable ==
                    (IF wfi THEN RVD_WFI ELSE {}) \cup
                    (IF reset THEN RVD_RESET ELSE {}) \cup
                    (IF DMStall /\ policy = RVDM_HALT THEN RVD_DEBUG ELSE {})
               IN riscv = [Hart0 EXCEPT
                        !.archS = a.archS, !.archU = a.archU,
                        !.mode = IF DM THEN RISCV_MODE_MACHINE ELSE from,
                        !.DM = DM, !.DMPort = DM, !.DMStall = DMStall,
                        !.debug_mode = policy,
                        !.disable = disable,
                        !.halted = (disable # {}),
                        !.dcsr.prv = IF DM THEN from
                                     ELSE RISCV_MODE_MACHINE,
                        !.dcsr.cause = IF DM THEN DMC_HALTREQ ELSE DMC_NONE,
                        !.dcsr.nmip = nmi,
                        !.dpc = 2,
                        !.netValue = [reset |-> reset, nmi |-> nmi,
                                      haltreq |-> haltreq,
                                      resethaltreq |-> resethaltreq,
                                      resethaltreqS |-> latch],
                        !.ip = IF pend THEN {WireInt} ELSE {},
                        !.mip = IF pend THEN {WireInt} ELSE {},
                        !.mie = {WireInt},
                        !.IE[RISCV_MODE_MACHINE] = mie,
                        !.mideleg = IF a.archS THEN {WireInt} ELSE {},
                        !.exception = riscv_E_Breakpoint,
                        !.cause[RISCV_MODE_MACHINE] =
                            [ExceptionCode |-> riscv_E_Breakpoint,
                             Interrupt |-> FALSE],
                        !.tvec = [m \in Modes |->
                                    [BASE |-> TvecBASE[m],
                                     MODE |-> riscv_int_Direct]],
                        !.PC = 10, !.jumpBase = 22,
                        !.reset_address = 64, !.nmi_address = 200,
                        !.numCBs = 2]

NextWire ==
    /\ Len(hist) < MaxOpsWire
    /\ \/ Running /\ \E e \in {riscv_E_IllegalInstruction,
                               riscv_E_Interrupt + WireInt} :
                        TakeException(e, 0)
       \/ Running /\ riscv.mode = RISCV_MODE_MACHINE /\ MRET
       \/ Running /\ riscv.archS /\ riscv.mode >= RISCV_MODE_SUPERVISOR
            /\ SRET
       \/ Running /\ riscv.archU /\ URET
       \/ Running /\ \E complete \in BOOLEAN :
                        IFetch(riscv.PC, complete, "executable")
       \/ Running /\ DRET
       \/ Running /\ EBREAK
       \/ Running /\ StepExcept
       \/ Running /\ WFI
       \/ \E DM \in BOOLEAN : SetDM(DM)
       \/ \E DMStall \in BOOLEAN : SetDMStall(DMStall)
       \/ Reset
       \/ \E newValue \in BOOLEAN : ResetPort(newValue)
       \/ \E newValue \in BOOLEAN : NMIPort(newValue)
       \/ \E newValue \in BOOLEAN : HaltreqPort(newValue)
       \/ \E newValue \in BOOLEAN : ResethaltreqPort(newValue)
       \/ \E newValue \in BOOLEAN : InterruptPort(WireInt, newValue)

SpecWire == InitWire /\ [][NextWire]_vars

(* The last operation took the hart out of Debug mode *)

DebugLeft == hist # <<>> /\ Pre.DM /\ ~riscv.DM

(* C14 as stated: the Debug flag is cleared by DRET only.  Violated:       *)
(* riscvReset, a falling edge of reset and riscvSetDM(False) clear it.     *)

C14_OnlyDRETLeavesDebugMode == DebugLeft => Op.name = "riscvDRET"

(* C14: the Debug flag is cleared only by DRET executed in Debug mode, by  *)
(* riscvSetDM(False), by riscvReset or by a falling edge of the reset      *)
(* input; trap entry, MRET/SRET/URET, fetch, EBREAK, single step, WFI, the *)
(* stall control and the interrupt, NMI, haltreq and resethaltreq inputs   *)
(* never make the transition from Debug to Running.                        *)

C14_WhatLeavesDebugMode ==
    DebugLeft =>
        \/ Op.name = "riscvDRET"
        \/ Op.name = "riscvSetDM" /\ Op.a = 0
        \/ Op.name = "riscvReset"
        \/ Op.name = "resetPortCB" /\ Pre.netValue.reset /\ Op.a = 0

C14_Witness ==
    /\ DebugLeft
    /\ Op.name = "resetPortCB"
    /\ Pre.DMStall
    /\ Pre.debug_mode = RVDM_HALT
    /\ ~riscv.DMPort

(* C17: a rising edge of reset only adds the Reset reason to the halt      *)
(* mask; a falling edge (and riscvReset) leaves the hart out of Debug mode *)
(* in Machine mode with lastException 0, at the reset address, with the    *)
(* reset-time halt latch equal to the resethaltreq input and every reset   *)
(* callback called, whatever the state before; a write of the level the    *)
(* input already has changes nothing.                                      *)

C17_Reset ==
    /\ Op.name = "resetPortCB" =>
        LET old == Pre.netValue.reset
            new == (Op.a = 1)
        IN  /\ (~old /\ new) =>
                /\ [riscv EXCEPT !.ev = Pre.ev] =
                    [Pre EXCEPT !.disable = @ \cup RVD_RESET,
                                !.halted = TRUE,
                                !.netValue.reset = TRUE]
                /\ riscv.ev = IF Pre.disable = {}
                              THEN <<[e |-> "vmirtHalt", a |-> 0]>>
                              ELSE <<>>
            /\ (old = new) =>
                /\ [riscv EXCEPT !.ev = Pre.ev] = Pre
                /\ riscv.ev = <<>>
            /\ riscv.netValue.reset = new
    /\ (\/ Op.name = "riscvReset"
        \/ Op.name = "resetPortCB" /\ Pre.netValue.reset /\ Op.a = 0) =>
        /\ ~riscv.DM
        /\ riscv.mode = RISCV_MODE_MACHINE
        /\ riscv.exception = 0
        /\ riscv.PC = Pre.reset_address
        /\ riscv.ev[Len(riscv.ev)] =
            [e |-> "vmirtSetPCException", a |-> Pre.reset_address]
        /\ riscv.netValue.resethaltreqS = Pre.netValue.resethaltreq
        /\ riscv.netValue.resethaltreq = Pre.netValue.resethaltreq
        /\ CountCalls(riscv, "resetNotifier") = Pre.numCBs
        /\ RVD_WFI \cap riscv.disable = {}
        /\ RVD_RESET \cap riscv.disable = {}

(* Reset released while the hart is stalled in Debug mode and in WFI *)

C17_Witness ==
    /\ Op.name = "resetPortCB"
    /\ Op.a = 0
    /\ Pre.netValue.reset
    /\ Pre.DM
    /\ Pre.disable = RVD_WFI \cup RVD_RESET \cup RVD_DEBUG
    /\ Pre.netValue.resethaltreq
    /\ ~Pre.netValue.resethaltreqS
    /\ ~riscv.DM
    /\ riscv.PC = 64
    /\ riscv.netValue.resethaltreqS
    /\ CountCalls(riscv, "resetNotifier") = 2

(* C18: a falling edge of NMI outside Debug mode enters Machine mode with  *)
(* mcause 0, mepc the return address and lastException 0 at the NMI        *)
(* address, whatever delegation and enables say; in Debug mode it changes  *)
(* nothing but the recorded input level, so nothing is left to enter on    *)
(* later, and no other operation jumps to the NMI address; dcsr.nmip      *)
(* follows the input.                                                      *)

C18_NMI ==
    /\ Op.name = "nmiPortCB" =>
        LET fall == Pre.netValue.nmi /\ Op.a = 0
        IN  /\ riscv.dcsr.nmip = (Op.a = 1)
            /\ riscv.netValue.nmi = (Op.a = 1)
            /\ (fall /\ ~Pre.DM) =>
                /\ riscv.mode = RISCV_MODE_MACHINE
                /\ riscv.cause[RISCV_MODE_MACHINE] =
                    [ExceptionCode |-> 0, Interrupt |-> FALSE]
                /\ riscv.epc[RISCV_MODE_MACHINE] = getEPC(Pre)
                /\ riscv.exception = 0
                /\ riscv.PC = Pre.nmi_address
                /\ CalledWith(riscv, "vmirtSetPCException", Pre.nmi_address)
            /\ ~(fall /\ ~Pre.DM) =>
                /\ riscv.ev = <<>>
                /\ [riscv EXCEPT !.ev = Pre.ev] =
                    [Pre EXCEPT !.dcsr.nmip = (Op.a = 1),
                                !.netValue.nmi = (Op.a = 1)]
    /\ CalledWith(riscv, "vmirtSetPCException", riscv.nmi_address) =>
        /\ Op.name = "nmiPortCB"
        /\ ~Pre.DM
        /\ Pre.netValue.nmi
        /\ Op.a = 0

C18_Witness ==
    /\ Op.name = "nmiPortCB"
    /\ Op.a = 0
    /\ Pre.netValue.nmi
    /\ ~Pre.DM
    /\ Pre.mode = RISCV_MODE_USER
    /\ Pre.mideleg = {WireInt}
    /\ ~Pre.IE[RISCV_MODE_MACHINE]
    /\ Pre.disable = RVD_WFI
    /\ riscv.mode = RISCV_MODE_MACHINE
    /\ riscv.PC = 200
    /\ riscv.epc[RISCV_MODE_MACHINE] = 10

(* An NMI falling edge in Debug mode *)

C18_WitnessInDebugMode ==
    /\ Op.name = "nmiPortCB"
    /\ Op.a = 0
    /\ Pre.netValue.nmi
    /\ Pre.DM
    /\ riscv.PC = 10
    /\ ~riscv.dcsr.nmip

(* The host's view of the hart after the first n host calls of the last    *)
(* operation: halted by vmirtHalt, running again by vmirtRestartNext       *)

RECURSIVE HostHalted(_)
HostHalted(n) ==
    IF n = 0 THEN Pre.halted
    ELSE IF riscv.ev[n].e = "vmirtHalt" THEN TRUE
    ELSE IF riscv.ev[n].e = "vmirtRestartNext" THEN FALSE
    ELSE HostHalted(n - 1)

(* C20: the halt mask is a set of independent reasons.  haltProcessor adds *)
(* its reasons and restartProcessor removes its reasons and nothing else,  *)
(* a second application changes nothing, vmirtHalt is called only when the *)
(* mask was empty and on a running hart, vmirtRestartNext only when the    *)
(* mask is empty afterwards; so after every operation the host has the     *)
(* hart halted exactly when some reason is asserted.                       *)

C20_HaltReasons ==
    /\ riscv.halted <=> (riscv.disable # {})
    /\ hist # <<>> =>
        /\ HostHalted(Len(riscv.ev)) <=> (riscv.disable # {})
        /\ \A n \in 1..Len(riscv.ev) :
            riscv.ev[n].e = "vmirtHalt" => ~HostHalted(n - 1)
    /\ \A reason \in {RVD_WFI, RVD_RESET, RVD_DEBUG, RVD_RESTART_RESET} :
        LET h == haltProcessor(riscv, reason)
            s == restartProcessor(riscv, reason)
        IN  /\ h.disable = riscv.disable \cup reason
            /\ [h EXCEPT !.ev = <<>>] =
                [riscv EXCEPT !.disable = @ \cup reason,
                              !.halted = TRUE, !.ev = <<>>]
            /\ haltProcessor(h, reason) = h
            /\ CountCalls(h, "vmirtHalt") = CountCalls(riscv, "vmirtHalt")
                    + (IF riscv.disable = {} THEN 1 ELSE 0)
            /\ s.disable = riscv.disable \ reason
            /\ [s EXCEPT !.ev = <<>>] =
                [riscv EXCEPT !.disable = @ \ reason,
                              !.halted = (riscv.disable \ reason # {}),
                              !.ev = <<>>]
            /\ [restartProcessor(s, reason) EXCEPT !.ev = <<>>] =
                [s EXCEPT !.ev = <<>>]
            /\ CountCalls(s, "vmirtRestartNext") =
                CountCalls(riscv, "vmirtRestartNext")
                    + (IF riscv.disable \ reason = {} THEN 1 ELSE 0)

(* An interrupt becomes pending on a hart that waits in WFI and is stalled *)
(* in Debug mode: the WFI reason goes, the hart stays halted               *)

C20_Witness ==
    /\ Op.name = "interruptPortCB"
    /\ Op.b = 1
    /\ Pre.disable = RVD_WFI \cup RVD_DEBUG
    /\ riscv.disable = RVD_DEBUG
    /\ riscv.halted
    /\ ~Called(riscv, "vmirtRestartNext")

----------------------------------------------------------------------------
(* DEBUG ROUND TRIPS: entries to Debug mode followed by DRET               *)

(* Operations applied in one behaviour of SpecTrip *)

MaxOpsTrip == 5

(* A running hart outside Debug mode with haltreq low and distinct values  *)
(* in the trap registers of each mode                                      *)

InitTrip ==
    /\ hist = <<>>
    /\ \E a \in Archs, policy \in {RVDM_HALT, RVDM_INTERRUPT},
          al \in RetAlignments, ie \in BOOLEAN, pp \in BOOLEAN,
          step \in BOOLEAN, eb \in BOOLEAN :
        \E mode \in ModesOf(a) :
            riscv = [Hart0 EXCEPT
                        !.archS = a.archS, !.archU = a.archU,
                        !.mode = mode,
                        !.debug_mode = policy,
                        !.curC = al.curC, !.PC = al.PC,
                        !.jumpBase = al.jumpBase,
                        !.IE = [m \in Modes |-> ie],
                        !.PIE = [m \in Modes |-> ~ie],
                        !.MPP = IF pp THEN RISCV_MODE_MACHINE
                                ELSE riscvGetMinMode(a),
                        !.SPP = IF pp /\ a.archS THEN RISCV_MODE_SUPERVISOR
                                ELSE riscvGetMinMode(a),
                        !.cause = [m \in Modes |->
                                    [ExceptionCode |-> m + 4,
                                     Interrupt |-> pp]],
                        !.epc = [m \in Modes |-> 36 + 4 * m],
                        !.tval = [m \in Modes |-> 100 + m],
                        !.tvec = [m \in Modes |->
                                    [BASE |-> TvecBASE[m],
                                     MODE |-> riscv_int_Direct]],
                        !.dcsr.step = step,
                        !.dcsr.ebreaku = eb,
                        !.dcsr.ebreaks = eb,
                        !.dcsr.ebreakm = eb,
                        !.dpc = 60,
                        !.exclusiveTag = TRUE,
                        !.numCBs = 1]

NextTrip ==
    /\ Len(hist) < MaxOpsTrip
    /\ \/ \E newValue \in BOOLEAN :
            /\ newValue # riscv.netValue.haltreq
            /\ HaltreqPort(newValue)
       \/ Running /\ IFetch(riscv.PC, TRUE, "executable")
       \/ Running /\ riscv.dcsr.step /\ StepExcept
       \/ Running /\ ~riscv.DM /\ riscv.dcsr.ebreakm /\ EBREAK
       \/ riscv.DMStall /\ SetDMStall(FALSE)
       \/ Running /\ riscv.DM /\ DRET

SpecTrip == InitTrip /\ [][NextTrip]_vars

(* The state after the i-th operation of the history *)

After(i) == IF i = Len(hist) THEN riscv ELSE hist[i + 1].pre

(* The i-th operation entered Debug mode from Running *)

IsEntry(i) == ~hist[i].pre.DM /\ After(i).DM

(* The i-th operation entered Debug mode at a fetch for a halt request *)

IsHaltreqEntry(i) ==
    /\ IsEntry(i)
    /\ hist[i].name = "riscvIFetchExcept"
    /\ After(i).dcsr.cause = DMC_HALTREQ

(* The i-th operation is a rising edge of haltreq *)

IsHaltreqRise(i) ==
    /\ hist[i].name = "haltreqPortCB"
    /\ ~hist[i].pre.netValue.haltreq
    /\ hist[i].a = 1

(* The history ends with a Debug entry at index i, released from its stall *)
(* or not, and DRET                                                        *)

EntryThenDRET(i) ==
    /\ i \in 1..(Len(hist) - 1)
    /\ IsEntry(i)
    /\ Op.name = "riscvDRET"
    /\ \A j \in (i + 1)..(Len(hist) - 1) : hist[j].name = "riscvSetDMStall"

(* C15: DRET in Debug mode clears the Debug flag and output, switches to   *)
(* the mode in dcsr.prv, resumes at dpc and removes the Debug halt reason; *)
(* a Debug entry followed by DRET gives back the mode and the resume       *)
(* address of before the entry and leaves the enable, previous-enable and  *)
(* previous-privilege bits and the cause, epc and tval registers of every  *)
(* mode as they were.                                                      *)

C15_DRETRestores ==
    /\ (Op.name = "riscvDRET" /\ Pre.DM) =>
        /\ ~riscv.DM
        /\ ~riscv.DMPort
        /\ CalledWith(riscv, "vmirtWriteNetPort", 0)
        /\ riscv.mode = Pre.dcsr.prv
        /\ riscv.PC = Pre.dpc
        /\ CalledWith(riscv, "vmirtSetPC", Pre.dpc)
        /\ ~riscv.DMStall
        /\ riscv.disable = Pre.disable \ RVD_DEBUG
        /\ riscv.dcsr = Pre.dcsr
        /\ riscv.dpc = Pre.dpc
    /\ \A i \in 1..Len(hist) :
        EntryThenDRET(i) =>
            LET before == hist[i].pre
            IN  /\ riscv.mode = before.mode
                /\ riscv.PC = getEPC(before)
                /\ riscv.IE = before.IE
                /\ riscv.PIE = before.PIE
                /\ riscv.MPP = before.MPP
                /\ riscv.SPP = before.SPP
                /\ riscv.cause = before.cause
                /\ riscv.epc = before.epc
                /\ riscv.tval = before.tval
                /\ riscv.disable = before.disable

(* Single step from Supervisor mode with interrupts enabled, stall         *)
(* released, DRET                                                          *)

C15_Witness ==
    /\ Len(hist) = 3
    /\ EntryThenDRET(1)
    /\ hist[1].name = "riscvStepExcept"
    /\ hist[1].pre.mode = RISCV_MODE_SUPERVISOR
    /\ hist[1].pre.IE[RISCV_MODE_MACHINE]
    /\ hist[1].pre.MPP = RISCV_MODE_MACHINE
    /\ hist[2].name = "riscvSetDMStall"
    /\ riscv.mode = RISCV_MODE_SUPERVISOR
    /\ riscv.PC = 12
    /\ riscv.epc[RISCV_MODE_MACHINE] = 48
    /\ ~riscv.DM

(* C16: a Debug entry for a halt request at a fetch answers a rising edge  *)
(* of haltreq that no earlier halt-request entry has answered: haltreq     *)
(* still high after DRET does not enter Debug mode again.  Violated: the   *)
(* fetch after DRET enters again on the level of haltreq.                  *)

C16_HaltreqEdgeTriggered ==
    \A i \in 1..Len(hist) :
        IsHaltreqEntry(i) =>
            \E e \in 1..(i - 1) :
                /\ IsHaltreqRise(e)
                /\ \A j \in (e + 1)..(i - 1) : ~IsHaltreqEntry(j)

(* haltreq rises once; fetch enters Debug mode; DRET; the next fetch       *)
(* enters Debug mode again with no new edge                                *)

C16_Witness ==
    /\ Len(hist) = 4
    /\ IsHaltreqRise(1)
    /\ IsHaltreqEntry(2)
    /\ hist[3].name = "riscvDRET"
    /\ ~hist[4].pre.DM
    /\ hist[4].pre.netValue.haltreq
    /\ IsHaltreqEntry(4)

----------------------------------------------------------------------------
(* TRAP COMMIT: one exception of any code, raised directly or by a memory  *)
(* access                                                                  *)

(* Operations applied in one behaviour of SpecTake *)

MaxOpsTake == 1

(* Codes raised: every exception, the standard interrupts and the first    *)
(* local interrupt                                                         *)

TakeCodes ==
    { riscv_E_InstructionAddressMisaligned, riscv_E_InstructionAccessFault,
      riscv_E_IllegalInstruction, riscv_E_Breakpoint,
      riscv_E_LoadAddressMisaligned, riscv_E_LoadAccessFault,
      riscv_E_StoreAMOAddressMisaligned, riscv_E_StoreAMOAccessFault,
      riscv_E_EnvironmentCallFromUMode, riscv_E_EnvironmentCallFromSMode,
      riscv_E_EnvironmentCallFromHMode, riscv_E_EnvironmentCallFromMMode,
      riscv_E_InstructionPageFault, riscv_E_LoadPageFault,
      riscv_E_StoreAMOPageFault,
      riscv_E_USWInterrupt, riscv_E_SSWInterrupt, riscv_E_MSWInterrupt,
      riscv_E_UTimerInterrupt, riscv_E_STimerInterrupt,
      riscv_E_MTimerInterrupt, riscv_E_UExternalInterrupt,
      riscv_E_SExternalInterrupt, riscv_E_MExternalInterrupt,
      riscv_E_LocalInterrupt }

(* Codes raised by a memory access *)

TakeMemoryCodes ==
    {riscv_E_LoadAccessFault, riscv_E_LoadPageFault,
     riscv_E_StoreAMOAccessFault}

InitTake ==
    /\ hist = <<>>
    /\ \E a \in Archs, DM \in BOOLEAN, inhibitIR \in BOOLEAN,
          vFirstFault \in BOOLEAN, vstart \in {0, 3},
          vstartWritable \in BOOLEAN, ds \in {0, 1} :
        \E mode \in (IF DM THEN {RISCV_MODE_MACHINE} ELSE ModesOf(a)),
           medeleg \in DelegOf(a, SUBSET {riscv_E_LoadAccessFault}),
           sedeleg \in DelegOf(a, SUBSET {riscv_E_LoadAccessFault}),
           mideleg \in
                DelegOf(a, SUBSET {INT_INDEX(riscv_E_SExternalInterrupt)}),
           sideleg \in
                DelegOf(a, SUBSET {INT_INDEX(riscv_E_SExternalInterrupt)}) :
            riscv = [Hart0 EXCEPT
                        !.archS = a.archS, !.archU = a.archU,
                        !.mode = mode,
                        !.DM = DM, !.DMPort = DM,
                        !.debug_mode = RVDM_INTERRUPT,
                        !.dcsr.cause = IF DM THEN DMC_HALTREQ ELSE DMC_NONE,
                        !.dpc = 2,
                        !.inhibitIR = inhibitIR,
                        !.baseInstructions = 5,
                        !.vFirstFault = vFirstFault,
                        !.vstart = vstart, !.vl = 8,
                        !.vstartWritable = vstartWritable,
                        !.medeleg = medeleg, !.sedeleg = sedeleg,
                        !.mideleg = mideleg, !.sideleg = sideleg,
                        !.IE = [m \in Modes |-> TRUE],
                        !.MPP = RISCV_MODE_MACHINE,
                        !.SPP = RISCV_MODE_SUPERVISOR,
                        !.tvec = [m \in Modes |->
                                    [BASE |-> TvecBASE[m],
                                     MODE |-> riscv_int_Direct]],
                        !.PC = 10, !.jumpBase = 22, !.dsOffset = ds,
                        !.exception = riscv_E_InstructionAccessFault,
                        !.numCBs = 2]

NextTake ==
    /\ Len(hist) < MaxOpsTake
    /\ \/ \E e \in TakeCodes : TakeException(e, 7)
       \/ \E e \in TakeMemoryCodes : TakeMemoryException(e, 7)

SpecTake == InitTake /\ [][NextTake]_vars

(* vstart as handleFF reads it, after its write mask is applied *)

MaskedVstart == IF Pre.vstartWritable THEN Pre.vstart ELSE 0

(* C24: riscvTakeMemoryException with the first-fault flag set and vstart  *)
(* (after its mask is applied) non-zero takes no trap: the flag is         *)
(* cleared, vl becomes vstart, the polymorphic key is refreshed, and mode, *)
(* status, cause/epc/tval, lastException and PC are unchanged.  With the   *)
(* flag set and vstart 0 the flag is cleared and the trap is taken; with   *)
(* the flag clear the trap is taken.                                       *)

C24_FirstFault ==
    Op.name = "riscvTakeMemoryException" =>
        /\ ~riscv.vFirstFault
        /\ IF Pre.vFirstFault /\ MaskedVstart # 0
           THEN /\ [riscv EXCEPT !.ev = Pre.ev] =
                    [Pre EXCEPT !.vFirstFault = FALSE, !.vl = Pre.vstart]
                /\ riscv.ev = <<[e |-> "riscvRefreshVectorPMKey", a |-> 0]>>
           ELSE /\ riscv = riscvTakeException(
                    Begin([Pre EXCEPT !.vFirstFault = FALSE,
                                      !.vstart = MaskedVstart]), Op.a, Op.b)
                /\ riscv.vl = Pre.vl
                /\ ~Called(riscv, "riscvRefreshVectorPMKey")
                /\ ~Pre.DM =>
                    /\ Called(riscv, "takeTrap")
                    /\ riscv.exception = Op.a
                    /\ riscv.cause[riscv.mode].ExceptionCode = Op.a
                    /\ riscv.PC = 4 * Pre.tvec[riscv.mode].BASE

(* A fault on element 3 in first-fault mode: suppressed *)

C24_Witness ==
    /\ Op.name = "riscvTakeMemoryException"
    /\ Pre.vFirstFault
    /\ Pre.vstart = 3
    /\ Pre.mode = RISCV_MODE_USER
    /\ ~Pre.DM
    /\ riscv.vl = 3
    /\ ~riscv.vFirstFault
    /\ riscv.mode = RISCV_MODE_USER
    /\ riscv.PC = 10
    /\ riscv.exception = riscv_E_InstructionAccessFault

(* A fault on element 0 in first-fault mode: taken *)

C24_WitnessFirstElement ==
    /\ Op.name = "riscvTakeMemoryException"
    /\ Pre.vFirstFault
    /\ Pre.vstart = 0
    /\ ~Pre.DM
    /\ Called(riscv, "takeTrap")
    /\ riscv.exception = riscv_E_LoadPageFault

(* Breakpoint and the environment calls *)

RetiredCodes ==
    { riscv_E_Breakpoint,
      riscv_E_EnvironmentCallFromUMode, riscv_E_EnvironmentCallFromSMode,
      riscv_E_EnvironmentCallFromHMode, riscv_E_EnvironmentCallFromMMode }

(* C25: riscvTakeException outside Debug mode adds one to the retired      *)
(* instruction counter when counting is not inhibited and the code is not  *)
(* Breakpoint or an environment call (so for every interrupt), and leaves  *)
(* the counter alone otherwise.                                            *)

C25_RetiredCount ==
    (Op.name = "riscvTakeException" /\ ~Pre.DM) =>
        riscv.baseInstructions =
            IF ~Pre.inhibitIR /\ Op.a \notin RetiredCodes
            THEN Pre.baseInstructions + 1
            ELSE Pre.baseInstructions

C25_Witness ==
    /\ Op.name = "riscvTakeException"
    /\ ~Pre.DM
    /\ ~Pre.inhibitIR
    /\ Op.a = riscv_E_MTimerInterrupt
    /\ riscv.baseInstructions = 6

(* An environment call is not counted here *)

C25_WitnessECALL ==
    /\ Op.name = "riscvTakeException"
    /\ ~Pre.DM
    /\ ~Pre.inhibitIR
    /\ Op.a = riscv_E_EnvironmentCallFromSMode
    /\ riscv.baseInstructions = 5

(* LoadAccessFault raised in User mode outside Debug mode with mideleg = 0 *)
(* and sedeleg = 0                                                         *)

LoadFaultInUserMode ==
    /\ Op.name = "riscvTakeException"
    /\ Op.a = riscv_E_LoadAccessFault
    /\ ~Pre.DM
    /\ Pre.mode = RISCV_MODE_USER
    /\ Pre.mideleg = {}
    /\ Pre.sedeleg = {}

(* The trap went to Machine mode with the registers of the claim *)

LoadFaultToMachine ==
    /\ riscv.mode = RISCV_MODE_MACHINE
    /\ riscv.cause[RISCV_MODE_MACHINE] =
        [ExceptionCode |-> riscv_E_LoadAccessFault, Interrupt |-> FALSE]
    /\ riscv.epc[RISCV_MODE_MACHINE] = getEPC(Pre)
    /\ riscv.MPP = RISCV_MODE_USER

(* C27 as stated: with mideleg = 0 and sedeleg = 0 the fault goes to       *)
(* Machine mode for every medeleg.  Violated: with the LoadAccessFault bit *)
(* of medeleg set the trap goes to Supervisor mode.                        *)

C27_LoadFaultAnyMedeleg == LoadFaultInUserMode => LoadFaultToMachine

(* C27: with the LoadAccessFault bit of medeleg clear, LoadAccessFault     *)
(* raised in User mode outside Debug mode goes to Machine mode with        *)
(* mcause = (0, LoadAccessFault), mepc = the return address and MPP =      *)
(* User, for every value of sedeleg, mideleg and sideleg; with the bit set *)
(* and the sedeleg bit clear it goes to Supervisor mode.                   *)

C27_LoadFaultUndelegated ==
    (/\ Op.name = "riscvTakeException"
     /\ Op.a = riscv_E_LoadAccessFault
     /\ ~Pre.DM
     /\ Pre.mode = RISCV_MODE_USER) =>
        /\ riscv_E_LoadAccessFault \notin Pre.medeleg => LoadFaultToMachine
        /\ (/\ riscv_E_LoadAccessFault \in Pre.medeleg
            /\ riscv_E_LoadAccessFault \notin Pre.sedeleg) =>
                /\ riscv.mode = RISCV_MODE_SUPERVISOR
                /\ riscv.SPP = RISCV_MODE_USER
                /\ riscv.MPP = Pre.MPP

C27_Witness ==
    /\ Op.name = "riscvTakeException"
    /\ Op.a = riscv_E_LoadAccessFault
    /\ ~Pre.DM
    /\ Pre.mode = RISCV_MODE_USER
    /\ Pre.medeleg = {}
    /\ Pre.sedeleg = {riscv_E_LoadAccessFault}
    /\ Pre.mideleg # {}
    /\ Pre.MPP = RISCV_MODE_MACHINE
    /\ riscv.mode = RISCV_MODE_MACHINE
    /\ riscv.MPP = RISCV_MODE_USER
    /\ riscv.epc[RISCV_MODE_MACHINE] = 10

(* The host calls of the last operation from the n-th on *)

CallsFrom(n) == SubSeq(riscv.ev, n, Len(riscv.ev))

(* C29: a trap entry outside Debug mode writes the CSRs of the destination *)
(* mode, switches mode, sets lastException to the code passed and the PC   *)
(* to the handler, and then calls every trap-entry callback, in the order  *)
(* of registration, with the destination mode; each callback sees the mode,*)
(* lastException, PC and CSRs of the finished trap entry.                  *)

C29_CommitBeforeCallbacks ==
    (Op.name = "riscvTakeException" /\ ~Pre.DM) =>
        LET n == Pre.numCBs
            k == Len(riscv.ev) - n
        IN  /\ riscv.exception = Op.a
            /\ k >= 1
            /\ riscv.ev[k] = [e |-> "vmirtSetPCException", a |-> riscv.PC]
            /\ CountCalls(riscv, "trapNotifier") = n
            /\ \A i \in 1..n :
                riscv.ev[k + i] =
                    [e |-> "trapNotifier", a |-> riscv.mode, cb |-> i,
                     seen |-> Visible(riscv)]

C29_Witness ==
    /\ Op.name = "riscvTakeException"
    /\ ~Pre.DM
    /\ Pre.numCBs = 2
    /\ Pre.mode = RISCV_MODE_USER
    /\ Op.a = riscv_E_SExternalInterrupt
    /\ riscv.mode = RISCV_MODE_SUPERVISOR
    /\ Len(riscv.ev) = 4
    /\ riscv.ev[4].cb = 2
    /\ riscv.ev[4].seen.mode = RISCV_MODE_SUPERVISOR
    /\ riscv.ev[4].seen.exception = riscv_E_SExternalInterrupt
    /\ riscv.ev[4].seen.PC = 32

----------------------------------------------------------------------------
(* PENDING INTERRUPTS: one operation on a hart with interrupts pending,    *)
(* enabled and delegated in every combination                              *)

(* Operations applied in one behaviour of SpecPend *)

MaxOpsPend == 1

(* Interrupt inputs driven: Machine timer, Supervisor external, and local  *)
(* interrupt 48, the first of the second double-word of the pending vector *)

LocalInterrupt48 == INT_INDEX(riscv_E_LocalInterrupt) + 48

PendPorts ==
    { INT_INDEX(riscv_E_MTimerInterrupt),
      INT_INDEX(riscv_E_SExternalInterrupt), LocalInterrupt48 }

(* Values of the software-pending register: Supervisor software or none *)

PendSwips == SUBSET {INT_INDEX(riscv_E_SSWInterrupt)}

(* Values of mie *)

PendEnables ==
    { {}, {INT_INDEX(riscv_E_MTimerInterrupt)},
      { INT_INDEX(riscv_E_SSWInterrupt), INT_INDEX(riscv_E_MTimerInterrupt),
        INT_INDEX(riscv_E_SExternalInterrupt) } }

(* mideleg and sideleg: Supervisor external kept, delegated to Supervisor, *)
(* delegated on to User                                                    *)

PendDelegs ==
    { [m |-> {}, s |-> {}],
      [m |-> {INT_INDEX(riscv_E_SExternalInterrupt)}, s |-> {}],
      [m |-> {INT_INDEX(riscv_E_SExternalInterrupt)},
       s |-> {INT_INDEX(riscv_E_SExternalInterrupt)}] }

InitPend ==
    /\ hist = <<>>
    /\ \E a \in Archs, DM \in BOOLEAN, DMStall \in BOOLEAN, wfi \in BOOLEAN,
          ie \in BOOLEAN, ext \in SUBSET (PendPorts \ {LocalInterrupt48}),
          swip \in PendSwips, mie \in PendEnables, high \in BOOLEAN :
        \E mode \in ModesOf(a),
           dl \in (IF a.archS THEN PendDelegs ELSE {[m |-> {}, s |-> {}]}) :
            /\ DMStall => DM
            /\ wfi => (~DM /\ mie \cap (ext \cup swip) = {})
            /\ riscv = [Hart0 EXCEPT
                        !.archS = a.archS, !.archU = a.archU,
                        !.mode = IF DM THEN RISCV_MODE_MACHINE ELSE mode,
                        !.DM = DM, !.DMPort = DM, !.DMStall = DMStall,
                        !.debug_mode = RVDM_HALT,
                        !.disable = (IF wfi THEN RVD_WFI ELSE {}) \cup
                                    (IF DMStall THEN RVD_DEBUG ELSE {}),
                        !.halted = wfi \/ DMStall,
                        !.dcsr.prv = IF DM THEN mode ELSE RISCV_MODE_MACHINE,
                        !.dcsr.cause = IF DM THEN DMC_HALTREQ ELSE DMC_NONE,
                        !.dpc = 2,
                        !.IE = [m \in Modes |->
                                    IF m = RISCV_MODE_USER THEN TRUE ELSE ie],
                        !.PIE = [m \in Modes |-> TRUE],
                        !.MPP = IF high THEN RISCV_MODE_MACHINE
                                ELSE riscvGetMinMode(a),
                        !.SPP = IF high /\ a.archS THEN RISCV_MODE_SUPERVISOR
                                ELSE riscvGetMinMode(a),
                        !.ip = ext, !.swip = swip, !.mip = ext \cup swip,
                        !.mie = mie,
                        !.mideleg = dl.m, !.sideleg = dl.s,
                        !.epc = [m \in Modes |-> 36 + 4 * m],
                        !.tvec = [m \in Modes |->
                                    [BASE |-> TvecBASE[m],
                                     MODE |-> riscv_int_Direct]],
                        !.PC = 10,
                        !.numCBs = 1]

NextPend ==
    /\ Len(hist) < MaxOpsPend
    /\ \/ Running /\ WFI
       \/ \E index \in PendPorts, newValue \in BOOLEAN :
            InterruptPort(index, newValue)
       \/ \E swip \in PendSwips : UpdatePending(swip)
       \/ \E newValue \in BOOLEAN : HaltreqPort(newValue)
       \/ Running /\ \E complete \in BOOLEAN :
                        IFetch(riscv.PC, complete, "executable")
       \/ Running /\ riscv.mode = RISCV_MODE_MACHINE /\ MRET
       \/ Running /\ riscv.archS /\ riscv.mode >= RISCV_MODE_SUPERVISOR
            /\ SRET
       \/ Running /\ riscv.archU /\ URET
       \/ Running /\ DRET
       \/ \E DM \in BOOLEAN : SetDM(DM)

SpecPend == InitPend /\ [][NextPend]_vars

(* mie AND mip *)

Wakeup(r) == r.mie \cap r.mip

(* The last operation wrote the pending state *)

PendingWritten == Op.name \in {"interruptPortCB", "riscvUpdatePending"}

(* C21: riscvWFI adds the WFI halt reason when the hart is not in Debug    *)
(* mode and mie AND mip is zero, and does nothing otherwise; a change of   *)
(* the pending state that makes mie AND mip non-zero removes the WFI       *)
(* reason, also when the interrupt is masked by the status enables or by   *)
(* delegation, and restarts a hart halted only by WFI; a change that       *)
(* leaves mie AND mip zero leaves the hart waiting.                        *)

C21_WFI ==
    /\ Op.name = "riscvWFI" =>
        IF ~Pre.DM /\ Wakeup(Pre) = {}
        THEN /\ [riscv EXCEPT !.ev = Pre.ev] =
                    [Pre EXCEPT !.disable = @ \cup RVD_WFI, !.halted = TRUE]
             /\ Called(riscv, "vmirtHalt")
        ELSE /\ [riscv EXCEPT !.ev = Pre.ev] = Pre
             /\ riscv.ev = <<>>
    /\ (PendingWritten /\ riscv.mip # Pre.mip) =>
        IF Wakeup(riscv) # {}
        THEN /\ riscv.disable = Pre.disable \ RVD_WFI
             /\ Pre.disable = RVD_WFI =>
                    (~riscv.halted /\ Called(riscv, "vmirtRestartNext"))
        ELSE /\ riscv.disable = Pre.disable
             /\ riscv.halted = Pre.halted

(* An interrupt delegated to Supervisor becomes pending on a hart waiting  *)
(* in Machine mode with interrupts disabled: not deliverable, the hart     *)
(* restarts                                                                *)

C21_Witness ==
    /\ Op.name = "interruptPortCB"
    /\ Op.a = INT_INDEX(riscv_E_SExternalInterrupt)
    /\ Pre.disable = RVD_WFI
    /\ Pre.mode = RISCV_MODE_MACHINE
    /\ ~Pre.IE[RISCV_MODE_MACHINE]
    /\ Pre.mideleg # {}
    /\ getPendingAndEnabledInterrupts(riscv) = {}
    /\ riscv.disable = {}
    /\ ~riscv.halted

(* WFI with an interrupt pending in mip but not enabled in mie: the hart   *)
(* halts                                                                   *)

C21_WitnessHalts ==
    /\ Op.name = "riscvWFI"
    /\ Pre.mip # {}
    /\ Pre.mie = {}
    /\ riscv.disable = RVD_WFI

(* C22: when haltreq rises on a hart halted in WFI with no pending         *)
(* interrupt the WFI halt reason is released and the hart restarts, to     *)
(* enter Debug mode at its next fetch.  Violated: the WFI reason stays and *)
(* the hart stays halted.                                                  *)

C22_HaltreqReleasesWFI ==
    (/\ Op.name = "haltreqPortCB"
     /\ ~Pre.netValue.haltreq
     /\ Op.a = 1
     /\ ~Pre.DM
     /\ Pre.disable = RVD_WFI) =>
        /\ riscv.disable = {}
        /\ ~riscv.halted

C22_Witness ==
    /\ Op.name = "haltreqPortCB"
    /\ ~Pre.netValue.haltreq
    /\ Op.a = 1
    /\ ~Pre.DM
    /\ Pre.disable = RVD_WFI
    /\ Pre.mip = {}
    /\ riscv.netValue.haltreq
    /\ Called(riscv, "vmirtDoSynchronousInterrupt")
    /\ riscv.disable = RVD_WFI
    /\ riscv.halted
    /\ ~Called(riscv, "vmirtRestartNext")

(* The first double-word of the external pending vector *)

FirstWord(ip) == {i \in ip : i < Uns64Bits}

(* C23: after an interrupt input write and after riscvUpdatePending, mip   *)
(* is the OR of the first double-word of the external pending vector and   *)
(* the software-pending register; an input write changes the one bit of    *)
(* the pending vector of that input; the interrupt check is re-run exactly *)
(* when the composed value differs from the mip of before.                 *)

C23_PendingComposition ==
    /\ PendingWritten =>
        /\ riscv.mip = FirstWord(riscv.ip) \cup riscv.swip
        /\ CountCalls(riscv, "riscvTestInterrupt") =
            IF FirstWord(riscv.ip) \cup riscv.swip # Pre.mip THEN 1 ELSE 0
    /\ Op.name = "interruptPortCB" =>
        /\ riscv.ip = IF Op.b = 1 THEN Pre.ip \cup {Op.a}
                      ELSE Pre.ip \ {Op.a}
        /\ riscv.swip = Pre.swip

C23_Witness ==
    /\ Op.name = "interruptPortCB"
    /\ Op.a = INT_INDEX(riscv_E_SExternalInterrupt)
    /\ Op.b = 0
    /\ Pre.ip = {INT_INDEX(riscv_E_MTimerInterrupt),
                 INT_INDEX(riscv_E_SExternalInterrupt)}
    /\ Pre.swip = {INT_INDEX(riscv_E_SSWInterrupt)}
    /\ riscv.mip = {INT_INDEX(riscv_E_SSWInterrupt),
                    INT_INDEX(riscv_E_MTimerInterrupt)}
    /\ Called(riscv, "riscvTestInterrupt")

(* An input of the second double-word: mip is not touched, no check *)

C23_WitnessSecondWord ==
    /\ Op.name = "interruptPortCB"
    /\ Op.a = LocalInterrupt48
    /\ Op.b = 1
    /\ LocalInterrupt48 \in riscv.ip
    /\ riscv.mip = Pre.mip
    /\ ~Called(riscv, "riscvTestInterrupt")

(* A completed fetch in User mode outside Debug mode with no Debug request *)
(* and Supervisor external, delegated by mideleg, the only interrupt       *)
(* pending and enabled                                                     *)

SExternalAtFetch ==
    /\ Op.name = "riscvIFetchExcept"
    /\ Op.b = 1
    /\ ~Pre.DM
    /\ ~Pre.netValue.haltreq
    /\ ~Pre.netValue.resethaltreqS
    /\ Pre.mode = RISCV_MODE_USER
    /\ INT_INDEX(riscv_E_SExternalInterrupt) \in Pre.mideleg
    /\ getPendingAndEnabledInterrupts(Pre) =
        {INT_INDEX(riscv_E_SExternalInterrupt)}

(* The interrupt was delivered to mode X *)

SExternalDeliveredTo(X) ==
    /\ riscv.mode = X
    /\ riscv.cause[X] =
        [ExceptionCode |-> INT_INDEX(riscv_E_SExternalInterrupt),
         Interrupt |-> TRUE]
    /\ riscv.exception = riscv_E_SExternalInterrupt

(* C28 as stated: the interrupt goes to Supervisor mode for every sideleg. *)
(* Violated: with the sideleg bit set it goes to User mode.                *)

ReturnTookEffect ==
    \/ Op.name \in {"riscvMRET", "riscvSRET", "riscvURET"} /\ ~Pre.DM
    \/ Op.name = "riscvDRET" /\ Pre.DM
    \/ Op.name = "riscvSetDM" /\ Op.a = 0 /\ Pre.DM

(* The completed fetch that follows the last operation *)

FetchAfterReturn ==
    riscvIFetchExcept(Begin(riscv), riscv.PC, TRUE, "executable")

(* C30: MRET, SRET and URET outside Debug mode, and DRET and               *)
(* riscvSetDM(False) in Debug mode, run the interrupt check once, on the   *)
(* state with the new mode, the restored enable bit and the Debug flag     *)
(* clear: an interrupt pending and enabled in the state after the return   *)
(* is scheduled, and the next completed fetch delivers it unless a halt    *)
(* request or the reset-halt latch is served first.                        *)

C30_WitnessDRET ==
    /\ Op.name = "riscvDRET"
    /\ Pre.DM
    /\ Pre.mip # {}
    /\ Called(riscv, "vmirtDoSynchronousInterrupt")
    /\ Called(FetchAfterReturn, "takeTrap")

----------------------------------------------------------------------------
(* EXCEPTION CATALOG: the implemented-exception masks and the enumerable   *)
(* list of exceptions built from them                                      *)

(* Table of exception descriptors: code and required architecture features *)

exceptions ==
    << [code |-> riscv_E_InstructionAddressMisaligned, arch |-> {}],
       [code |-> riscv_E_InstructionAccessFault,       arch |-> {}],
       [code |-> riscv_E_IllegalInstruction,           arch |-> {}],
       [code |-> riscv_E_Breakpoint,                   arch |-> {}],
       [code |-> riscv_E_LoadAddressMisaligned,        arch |-> {}],
       [code |-> riscv_E_LoadAccessFault,              arch |-> {}],
       [code |-> riscv_E_StoreAMOAddressMisaligned,    arch |-> {}],
       [code |-> riscv_E_StoreAMOAccessFault,          arch |-> {}],
       [code |-> riscv_E_EnvironmentCallFromUMode,     arch |-> {"U"}],
       [code |-> riscv_E_EnvironmentCallFromSMode,     arch |-> {"S"}],
       [code |-> riscv_E_EnvironmentCallFromMMode,     arch |-> {}],
       [code |-> riscv_E_InstructionPageFault,         arch |-> {}],
       [code |-> riscv_E_LoadPageFault,                arch |-> {}],
       [code |-> riscv_E_StoreAMOPageFault,            arch |-> {}],
       [code |-> riscv_E_USWInterrupt,                 arch |-> {"N"}],
       [code |-> riscv_E_SSWInterrupt,                 arch |-> {"S"}],
       [code |-> riscv_E_MSWInterrupt,                 arch |-> {}],
       [code |-> riscv_E_UTimerInterrupt,              arch |-> {"N"}],
       [code |-> riscv_E_STimerInterrupt,              arch |-> {"S"}],
       [code |-> riscv_E_MTimerInterrupt,              arch |-> {}],
       [code |-> riscv_E_UExternalInterrupt,           arch |-> {"N"}],
       [code |-> riscv_E_SExternalInterrupt,           arch |-> {"S"}],
       [code |-> riscv_E_MExternalInterrupt,           arch |-> {}] >>

(* configInfo.arch as the set of its feature letters *)

configArch(r) ==
    (IF r.archS THEN {"S"} ELSE {}) \cup (IF r.archU THEN {"U"} ELSE {})
        \cup (IF r.archN THEN {"N"} ELSE {})

hasException(r, code) ==
    IF code < riscv_E_Interrupt
    THEN code \in r.exceptionMask
    ELSE (code - riscv_E_Interrupt) \in r.interruptMask

getLocalIntNum(r) == IF r.isContainer THEN 0 ELSE r.local_int_num

(* Most local interrupts the interrupt mask can hold *)

LocalIntCap == 48

riscvGetLocalIntMask(r) ==
    LET localIntNum == getLocalIntNum(r)
        localShift == IF localIntNum < LocalIntCap THEN localIntNum
                      ELSE LocalIntCap
    IN  {riscv_E_Local + i : i \in 0 .. localShift - 1}

riscvSetExceptionMask(r) ==
    LET arch == configArch(r)
        implemented == {i \in DOMAIN exceptions : exceptions[i].arch \subseteq arch}
        exceptionMask ==
            {exceptions[i].code : i \in {j \in implemented :
                                    exceptions[j].code < riscv_E_Interrupt}}
        interruptMask ==
            {exceptions[i].code - riscv_E_Interrupt :
                i \in {j \in implemented :
                        exceptions[j].code >= riscv_E_Interrupt}}
    IN  [r EXCEPT
            !.exceptionMask = exceptionMask,
            !.interruptMask = (interruptMask \cup riscvGetLocalIntMask(r))
                                \ r.unimp_int_mask]

getExceptions(r) ==
    IF ~r.exceptions.valid
    THEN LET numLocal == getLocalIntNum(r)
             base == SelectSeq([i \in DOMAIN exceptions |-> exceptions[i].code],
                               LAMBDA code : hasException(r, code))
             local == [i \in 1 .. numLocal |-> riscv_E_LocalInterrupt + (i - 1)]
             all == base \o r.extExceptions \o local
         IN  [r EXCEPT !.exceptionNum = Len(all),
                       !.exceptions = [valid |-> TRUE, all |-> all]]
    ELSE r

SetExceptionMask ==
    Apply("riscvSetExceptionMask", 0, 0, "",
          riscvSetExceptionMask(Begin(riscv)))

GetExceptions ==
    Apply("getExceptions", 0, 0, "", getExceptions(Begin(riscv)))

(* Operations applied in one behaviour of SpecCat *)

MaxOpsCat == 2

(* Local interrupt counts configured: none, two, the cap, one above it *)

LocalCounts == {0, 2, LocalIntCap, LocalIntCap + 1}

(* Interrupts a configuration can mark absent: Supervisor software, local  *)
(* interrupt 1                                                             *)

UnimpInts == {INT_INDEX(riscv_E_SSWInterrupt), riscv_E_Local + 1}

(* An exception code of an extension, outside the standard table *)

ExtensionException == riscv_E_StoreAMOPageFault + 9

(* The hart after construction: masks set, catalog not yet built *)

InitCat ==
    /\ hist = <<>>
    /\ \E a \in Archs, archN \in BOOLEAN, local_int_num \in LocalCounts,
          unimp \in SUBSET UnimpInts, isContainer \in BOOLEAN,
          ext \in {<<>>, <<ExtensionException>>} :
        /\ archN => a.archU
        /\ riscv = riscvSetExceptionMask(
                    [Hart0 EXCEPT
                        !.archS = a.archS, !.archU = a.archU,
                        !.archN = archN,
                        !.local_int_num = local_int_num,
                        !.unimp_int_mask = unimp,
                        !.isContainer = isContainer,
                        !.extExceptions = ext])

NextCat ==
    /\ Len(hist) < MaxOpsCat
    /\ \/ SetExceptionMask
       \/ GetExceptions

SpecCat == InitCat /\ [][NextCat]_vars

(* The codes of the catalog that no extension supplied *)

CatalogCodes ==
    {riscv.exceptions.all[i] : i \in DOMAIN riscv.exceptions.all}
        \ {riscv.extExceptions[i] : i \in DOMAIN riscv.extExceptions}

(* The standard codes and the local interrupt codes a configuration of     *)
(* InitCat can number                                                      *)

StandardAndLocalCodes ==
    {exceptions[i].code : i \in DOMAIN exceptions}
        \cup {riscv_E_LocalInterrupt + i : i \in 0 .. LocalIntCap + 1}

(* C26: the catalog holds a standard or local code exactly when the bit of *)
(* that code is set in exceptionMask or interruptMask.  Violated: every    *)
(* configured local interrupt is listed, also one that the unimplemented   *)
(* mask or the cap of 48 keeps out of interruptMask.                       *)

C26_CatalogMatchesMasks ==
    riscv.exceptions.valid =>
        \A code \in StandardAndLocalCodes :
            code \in CatalogCodes <=>
                IF code < riscv_E_Interrupt
                THEN code \in riscv.exceptionMask
                ELSE (code - riscv_E_Interrupt) \in riscv.interruptMask

(* Local interrupt 1 marked absent and two local interrupts configured:    *)
(* bit 17 of interruptMask is clear, LocalInterrupt1 is in the catalog     *)

C26_Witness ==
    /\ Op.name = "getExceptions"
    /\ riscv.local_int_num = 2
    /\ ~riscv.isContainer
    /\ (riscv_E_Local + 1) \in riscv.unimp_int_mask
    /\ (riscv_E_Local + 1) \notin riscv.interruptMask
    /\ (riscv_E_LocalInterrupt + 1) \in CatalogCodes
    /\ riscv.exceptionNum = Len(riscv.exceptions.all)

----------------------------------------------------------------------------
(* RESET-TIME HALT REQUEST: resets, halt requests and fetches in sequence  *)

(* Operations applied in one behaviour of SpecLatch *)

MaxOpsLatch == 5

(* A hart with all modes running in Machine mode, the Machine timer        *)
(* interrupt pending, never reset                                          *)

InitLatch ==
    /\ hist = <<>>
    /\ \E policy \in {RVDM_HALT, RVDM_INTERRUPT}, resethaltreq \in BOOLEAN,
          ie \in BOOLEAN :
        riscv = [Hart0 EXCEPT
                    !.debug_mode = policy,
                    !.netValue.resethaltreq = resethaltreq,
                    !.IE = [m \in Modes |-> ie],
                    !.ip = {INT_INDEX(riscv_E_MTimerInterrupt)},
                    !.mip = {INT_INDEX(riscv_E_MTimerInterrupt)},
                    !.mie = {INT_INDEX(riscv_E_MTimerInterrupt)},
                    !.tvec = [m \in Modes |->
                                [BASE |-> TvecBASE[m],
                                 MODE |-> riscv_int_Direct]],
                    !.PC = 10, !.reset_address = 64,
                    !.exception = riscv_E_IllegalInstruction]

NextLatch ==
    /\ Len(hist) < MaxOpsLatch
    /\ \/ ResethaltreqPort(~riscv.netValue.resethaltreq)
       \/ ResetPort(~riscv.netValue.reset)
       \/ Reset
       \/ HaltreqPort(~riscv.netValue.haltreq)
       \/ Running /\ \E complete \in BOOLEAN :
                        IFetch(riscv.PC, complete, "executable")
       \/ ~riscv.DM /\ SetDM(TRUE)
       \/ riscv.DMStall /\ SetDMStall(FALSE)
       \/ Running /\ riscv.DM /\ DRET

SpecLatch == InitLatch /\ [][NextLatch]_vars

(* The i-th operation is a reset: riscvReset, or the falling edge of the   *)
(* reset input                                                             *)

IsReset(i) ==
    \/ hist[i].name = "riscvReset"
    \/ /\ hist[i].name = "resetPortCB"
       /\ hist[i].pre.netValue.reset
       /\ hist[i].a = 0

IsCompletedFetch(i) == hist[i].name = "riscvIFetchExcept" /\ hist[i].b = 1

(* The i-th operation is the first completed fetch after the reset at j *)

FirstFetchAfterReset(j, i) ==
    /\ j \in 1 .. (i - 1)
    /\ IsReset(j)
    /\ IsCompletedFetch(i)
    /\ \A k \in (j + 1) .. (i - 1) : ~IsReset(k) /\ ~IsCompletedFetch(k)

(* The i-th operation entered Debug mode with cause reset-halt-request *)

IsResetHaltEntry(i) ==
    /\ IsEntry(i)
    /\ After(i).dcsr.cause = DMC_RESETHALTREQ

(* C31 as stated: a completed fetch enters Debug mode with cause           *)
(* reset-halt-request exactly when it is the first completed fetch after a *)
(* reset at which resethaltreq was high.  Violated: riscvSetDM(True)       *)
(* between the reset and the fetch puts the hart in Debug mode, the fetch  *)
(* clears the latch and enters nothing.                                    *)

----------------------------------------------------------------------------
(* RETURNS: resume address, MPRV, the exclusive reservation, and the       *)
(* return after an NMI                                                     *)

(* Operations applied in one behaviour of SpecXret *)

MaxOpsXret == 2

(* Compressed instructions configured and enabled, configured and          *)
(* disabled, not configured; low is bit 1 of the saved addresses, which an *)
(* epc register holds only when compressed instructions are configured     *)

XretAlignments ==
    { [cfgC |-> TRUE,  curC |-> TRUE,  low |-> 2, PC |-> 10],
      [cfgC |-> TRUE,  curC |-> FALSE, low |-> 2, PC |-> 12],
      [cfgC |-> FALSE, curC |-> FALSE, low |-> 0, PC |-> 12] }

InitXret ==
    /\ hist = <<>>
    /\ \E a \in Archs, DM \in BOOLEAN, wfi \in BOOLEAN, al \in XretAlignments,
          privNewer \in BOOLEAN, xret_preserves_lr \in BOOLEAN,
          MPRV \in BOOLEAN, ie \in BOOLEAN, high \in BOOLEAN :
        \E mode \in ModesOf(a) :
            /\ wfi => ~DM
            /\ riscv = [Hart0 EXCEPT
                        !.archS = a.archS, !.archU = a.archU,
                        !.mode = IF DM THEN RISCV_MODE_MACHINE ELSE mode,
                        !.DM = DM, !.DMPort = DM,
                        !.dcsr.prv = IF DM THEN mode ELSE RISCV_MODE_MACHINE,
                        !.dcsr.cause = IF DM THEN DMC_HALTREQ ELSE DMC_NONE,
                        !.disable = IF wfi THEN RVD_WFI ELSE {},
                        !.halted = wfi,
                        !.cfgC = al.cfgC, !.curC = al.curC, !.PC = al.PC,
                        !.epc = [m \in Modes |-> 32 + 8 * m + al.low],
                        !.dpc = 96 + al.low,
                        !.privNewer = privNewer,
                        !.xret_preserves_lr = xret_preserves_lr,
                        !.MPRV = MPRV,
                        !.IE = [m \in Modes |-> ie],
                        !.PIE = [m \in Modes |-> ~ie],
                        !.MPP = IF high THEN RISCV_MODE_MACHINE
                                ELSE riscvGetMinMode(a),
                        !.SPP = IF high /\ a.archS THEN RISCV_MODE_SUPERVISOR
                                ELSE riscvGetMinMode(a),
                        !.cause = [m \in Modes |->
                                    [ExceptionCode |-> m + 4,
                                     Interrupt |-> TRUE]],
                        !.tval = [m \in Modes |-> 100 + m],
                        !.tvec = [m \in Modes |->
                                    [BASE |-> TvecBASE[m],
                                     MODE |-> riscv_int_Direct]],
                        !.baseInstructions = 5,
                        !.exception = riscv_E_IllegalInstruction,
                        !.netValue.nmi = TRUE,
                        !.nmi_address = 200,
                        !.exclusiveTag = TRUE,
                        !.numCBs = 1]

NextXret ==
    /\ Len(hist) < MaxOpsXret
    /\ \/ Running /\ \E e \in RetCodes : TakeException(e, 0)
       \/ Running /\ riscv.mode = RISCV_MODE_MACHINE /\ MRET
       \/ Running /\ riscv.archS /\ riscv.mode >= RISCV_MODE_SUPERVISOR
            /\ SRET
       \/ Running /\ riscv.archU /\ URET
       \/ Running /\ riscv.DM /\ DRET
       \/ riscv.DM /\ SetDM(FALSE)
       \/ NMIPort(~riscv.netValue.nmi)

SpecXret == InitXret /\ [][NextXret]_vars

(* The address the last return read: the epc of its mode, or dpc *)

SavedResume ==
    IF Op.name = "riscvMRET" THEN Pre.epc[RISCV_MODE_MACHINE]
    ELSE IF Op.name = "riscvSRET" THEN Pre.epc[RISCV_MODE_SUPERVISOR]
    ELSE IF Op.name = "riscvURET" THEN Pre.epc[RISCV_MODE_USER]
    ELSE Pre.dpc

(* C32: after MRET, SRET, URET and Debug exit the resume address has bit 0 *)
(* clear, bit 1 clear when compressed instructions are currently disabled  *)
(* and as saved otherwise, and every higher bit as saved in epc or dpc.    *)

C33_MPRV ==
    ReturnTookEffect =>
        riscv.MPRV =
            IF /\ Op.name # "riscvURET"
               /\ Pre.privNewer
               /\ riscv.mode # RISCV_MODE_MACHINE
            THEN FALSE
            ELSE Pre.MPRV

C33_Witness ==
    /\ Op.name = "riscvSRET"
    /\ ~Pre.DM
    /\ Pre.privNewer
    /\ Pre.MPRV
    /\ riscv.mode = RISCV_MODE_USER
    /\ ~riscv.MPRV

(* URET on the newer version keeps MPRV set *)

C33_WitnessURET ==
    /\ Op.name = "riscvURET"
    /\ ~Pre.DM
    /\ Pre.privNewer
    /\ Pre.MPRV
    /\ riscv.mode = RISCV_MODE_USER
    /\ riscv.MPRV

(* C35: a trap taken by riscvTakeException outside Debug mode clears the   *)
(* exclusive reservation; MRET, SRET and URET outside Debug mode clear it  *)
(* unless xret_preserves_lr is configured, and then leave it as it was.    *)

C35_Reservation ==
    /\ (Op.name = "riscvTakeException" /\ ~Pre.DM) => ~riscv.exclusiveTag
    /\ (Op.name \in {"riscvMRET", "riscvSRET", "riscvURET"} /\ ~Pre.DM) =>
        riscv.exclusiveTag = (Pre.xret_preserves_lr /\ Pre.exclusiveTag)

C35_Witness ==
    /\ Op.name = "riscvSRET"
    /\ ~Pre.DM
    /\ Pre.xret_preserves_lr
    /\ Pre.exclusiveTag
    /\ riscv.exclusiveTag

C35_WitnessTrap ==
    /\ Op.name = "riscvTakeException"
    /\ ~Pre.DM
    /\ Pre.xret_preserves_lr
    /\ Pre.exclusiveTag
    /\ ~riscv.exclusiveTag

(* The last operation took an NMI *)

NMITaken ==
    /\ Op.name = "nmiPortCB"
    /\ Pre.netValue.nmi
    /\ Op.a = 0
    /\ ~Pre.DM

(* C39: NMI entry writes the mode, mcause, mepc, the last exception, the   *)
(* resume address and the halt reasons it releases, besides the stored     *)
(* value of the input; MIE, MPIE, MPP, mtval, the reservation and the      *)
(* retired-instruction count stay and no trap notifier is called; MRET     *)
(* after an NMI returns to the mode MPP held before the NMI.               *)

C39_NMIFrame ==
    /\ NMITaken =>
        /\ [riscv EXCEPT !.ev = <<>>] =
            [Pre EXCEPT
                !.mode = RISCV_MODE_MACHINE,
                !.cause[RISCV_MODE_MACHINE] =
                    [ExceptionCode |-> 0, Interrupt |-> FALSE],
                !.epc[RISCV_MODE_MACHINE] = getEPC(Pre),
                !.exception = 0,
                !.PC = Pre.nmi_address,
                !.disable = Pre.disable \ RVD_RESTART_NMI,
                !.halted = (Pre.disable \ RVD_RESTART_NMI) # {},
                !.netValue.nmi = FALSE,
                !.dcsr.nmip = FALSE,
                !.ev = <<>>]
        /\ ~Called(riscv, "trapNotifier")
    /\ (/\ Len(hist) = 2
        /\ Op.name = "riscvMRET"
        /\ Op2.name = "nmiPortCB" /\ Op2.pre.netValue.nmi /\ Op2.a = 0
        /\ ~Op2.pre.DM) =>
            riscv.mode = getERETMode(Pre, Op2.pre.MPP, riscvGetMinMode(Pre))

(* NMI in User mode with MPP = Machine, then MRET: the hart resumes in     *)
(* Machine mode, not in the interrupted User mode                          *)

C39_Witness ==
    /\ Len(hist) = 2
    /\ Op2.name = "nmiPortCB"
    /\ Op2.pre.mode = RISCV_MODE_USER
    /\ Op2.pre.MPP = RISCV_MODE_MACHINE
    /\ ~Op2.pre.DM
    /\ Pre.mode = RISCV_MODE_MACHINE
    /\ Pre.IE = Op2.pre.IE
    /\ Op.name = "riscvMRET"
    /\ riscv.mode = RISCV_MODE_MACHINE

----------------------------------------------------------------------------
(* EXTERNAL INTERRUPT IDS: the ID inputs are written, then a trap is taken *)

(* Operations applied in one behaviour of SpecExtInt *)

MaxOpsExtInt == 2

(* Values driven on an external-interrupt-ID input *)

ExtIntValues == {0, 7, 40}

(* Traps taken: the three external interrupts, a timer interrupt and an    *)
(* exception                                                               *)

ExtIntCodes ==
    { riscv_E_UExternalInterrupt, riscv_E_SExternalInterrupt,
      riscv_E_MExternalInterrupt, riscv_E_MTimerInterrupt,
      riscv_E_IllegalInstruction }

(* The ID input of an external interrupt *)

ExtIntInput(e) == e - riscv_E_ExternalInterrupt

(* A running hart with no ID latched; harts with User mode take User       *)
(* interrupts                                                              *)

InitExtInt ==
    /\ hist = <<>>
    /\ \E a \in Archs, tmode \in {riscv_int_Direct, riscv_int_Vectored} :
        \E mode \in ModesOf(a),
           dl \in (IF a.archS THEN PendDelegs ELSE {[m |-> {}, s |-> {}]}) :
            riscv = [Hart0 EXCEPT
                        !.archS = a.archS, !.archU = a.archU,
                        !.archN = a.archU,
                        !.mode = mode,
                        !.IE = [m \in Modes |-> TRUE],
                        !.mideleg = dl.m, !.sideleg = dl.s,
                        !.tvec = [m \in Modes |->
                                    [BASE |-> TvecBASE[m], MODE |-> tmode]],
                        !.PC = 10,
                        !.exception = riscv_E_Breakpoint]

NextExtInt ==
    /\ Len(hist) < MaxOpsExtInt
    /\ \/ \E e \in {riscv_E_UExternalInterrupt, riscv_E_SExternalInterrupt,
                    riscv_E_MExternalInterrupt},
             newValue \in ExtIntValues :
            InterruptIDPort(ExtIntInput(e), newValue)
       \/ \E e \in ExtIntCodes :
            /\ e = riscv_E_UExternalInterrupt => riscv.archN
            /\ e = riscv_E_SExternalInterrupt => riscv.archS
            /\ TakeException(e, 0)

SpecExtInt == InitExtInt /\ [][NextExtInt]_vars

(* C34: a trap for an external interrupt writes to the cause register of   *)
(* its destination mode the value latched on the ID input of that          *)
(* interrupt when that value is not zero and the bare code when it is      *)
(* zero; every other trap writes the bare code; the handler address is the *)
(* base, plus 4 * bare code for an interrupt in vectored mode, and the     *)
(* last exception is the identifier the trap was raised with; a write of   *)
(* an ID input stores the value for that input alone.                      *)

C34_ExternalInterruptID ==
    /\ (Op.name = "riscvTakeException" /\ ~Pre.DM) =>
        LET e == Op.a
            X == riscv.mode
            bare == e % riscv_E_Interrupt
            external == e \in {riscv_E_UExternalInterrupt,
                               riscv_E_SExternalInterrupt,
                               riscv_E_MExternalInterrupt}
        IN  /\ riscv.cause[X].ExceptionCode =
                IF external /\ Pre.extInt[ExtIntInput(e)] # 0
                THEN Pre.extInt[ExtIntInput(e)]
                ELSE bare
            /\ riscv.cause[X].Interrupt = (e >= riscv_E_Interrupt)
            /\ riscv.exception = e
            /\ riscv.PC =
                4 * Pre.tvec[X].BASE +
                (IF e >= riscv_E_Interrupt
                    /\ Pre.tvec[X].MODE = riscv_int_Vectored
                 THEN 4 * bare ELSE 0)
            /\ riscv.extInt = Pre.extInt
    /\ Op.name = "interruptIDPortCB" =>
        [riscv EXCEPT !.ev = <<>>] =
            [Pre EXCEPT !.extInt[Op.a] = Op.b, !.ev = <<>>]

(* ID 40 latched for Supervisor external, the interrupt delegated to       *)
(* Supervisor in vectored mode: scause holds 40, the handler is at         *)
(* base + 4 * 9                                                            *)

C34_Witness ==
    /\ Len(hist) = 2
    /\ Op2.name = "interruptIDPortCB"
    /\ Op2.a = ExtIntInput(riscv_E_SExternalInterrupt)
    /\ Op2.b = 40
    /\ Op.name = "riscvTakeException"
    /\ Op.a = riscv_E_SExternalInterrupt
    /\ riscv.mode = RISCV_MODE_SUPERVISOR
    /\ riscv.cause[RISCV_MODE_SUPERVISOR].ExceptionCode = 40
    /\ riscv.PC = 4 * TvecBASE[RISCV_MODE_SUPERVISOR] + 36
    /\ riscv.exception = riscv_E_SExternalInterrupt

(* No ID latched (or ID 0 written): mcause holds the bare code 11 *)

C34_WitnessZero ==
    /\ Len(hist) = 2
    /\ Op2.name = "interruptIDPortCB"
    /\ Op2.a = ExtIntInput(riscv_E_MExternalInterrupt)
    /\ Op2.b = 0
    /\ Op.name = "riscvTakeException"
    /\ Op.a = riscv_E_MExternalInterrupt
    /\ riscv.cause[RISCV_MODE_MACHINE].ExceptionCode = 11

----------------------------------------------------------------------------
(* FRAME OF A TRAP *)

(* The trap registers of mode m: cause, epc, tval, enable, previous enable *)

TrapRegs(r, m) ==
    [cause |-> r.cause[m], epc |-> r.epc[m], tval |-> r.tval[m],
     IE |-> r.IE[m], PIE |-> r.PIE[m]]

(* C38: a trap taken to mode X leaves the cause, epc, tval, enable and     *)
(* previous-enable of every other mode unchanged, writes SPP only when X   *)
(* is Supervisor and MPP only when X is Machine, and writes no delegation  *)
(* or trap-vector register.                                                *)

C38_TrapFrame ==
    (hist # <<>> /\ Called(riscv, "takeTrap")) =>
        LET X == riscv.mode
        IN  /\ \A m \in Modes \ {X} : TrapRegs(riscv, m) = TrapRegs(Pre, m)
            /\ X # RISCV_MODE_SUPERVISOR => riscv.SPP = Pre.SPP
            /\ X # RISCV_MODE_MACHINE => riscv.MPP = Pre.MPP
            /\ riscv.medeleg = Pre.medeleg
            /\ riscv.sedeleg = Pre.sedeleg
            /\ riscv.mideleg = Pre.mideleg
            /\ riscv.sideleg = Pre.sideleg
            /\ riscv.tvec = Pre.tvec
            /\ riscv.IMode = Pre.IMode

(* A load access fault delegated to Supervisor, taken in User mode: the    *)
(* Supervisor registers are written, the Machine and User ones are not     *)

C38_Witness ==
    /\ Op.name = "riscvTakeException"
    /\ Op.a = riscv_E_LoadAccessFault
    /\ Pre.mode = RISCV_MODE_USER
    /\ riscv.mode = RISCV_MODE_SUPERVISOR
    /\ TrapRegs(riscv, RISCV_MODE_SUPERVISOR)
        # TrapRegs(Pre, RISCV_MODE_SUPERVISOR)
    /\ riscv.SPP = RISCV_MODE_USER
    /\ riscv.MPP = RISCV_MODE_MACHINE
    /\ TrapRegs(riscv, RISCV_MODE_MACHINE) = TrapRegs(Pre, RISCV_MODE_MACHINE)
    /\ riscv.IE[RISCV_MODE_MACHINE]

(* Supervisor external delegated on to User, taken in User mode *)

C38_WitnessUser ==
    /\ Op.name = "riscvTakeException"
    /\ Op.a = riscv_E_SExternalInterrupt
    /\ riscv.mode = RISCV_MODE_USER
    /\ riscv.cause[RISCV_MODE_USER].Interrupt
    /\ riscv.SPP = RISCV_MODE_SUPERVISOR
    /\ riscv.MPP = RISCV_MODE_MACHINE

----------------------------------------------------------------------------
(* INTERRUPT MASKING AROUND A TRAP: traps and fetches on a hart with       *)
(* interrupts pending                                                      *)

(* Operations applied in one behaviour of SpecMask *)

MaxOpsMask == 2

(* Interrupts pending: Supervisor software, Machine timer, local 17 *)

MaskInts ==
    { INT_INDEX(riscv_E_SSWInterrupt), INT_INDEX(riscv_E_MTimerInterrupt),
      INT_INDEX(LocalInterrupt17) }

InitMask ==
    /\ hist = <<>>
    /\ \E a \in Archs, wraps \in BOOLEAN, ie \in [Modes -> BOOLEAN],
          mip \in SUBSET MaskInts :
        \E mode \in ModesOf(a),
           mideleg \in DelegOf(a, SUBSET (MaskInts \
                            {INT_INDEX(riscv_E_MTimerInterrupt)})),
           sideleg \in DelegOf(a, SUBSET {INT_INDEX(riscv_E_SSWInterrupt)}),
           medeleg \in DelegOf(a, SUBSET {riscv_E_IllegalInstruction}) :
            riscv = [Hart0 EXCEPT
                        !.archS = a.archS, !.archU = a.archU,
                        !.mode = mode,
                        !.shiftWraps = wraps,
                        !.IE = ie,
                        !.medeleg = medeleg,
                        !.mie = MaskInts, !.mip = mip, !.ip = mip,
                        !.mideleg = mideleg, !.sideleg = sideleg,
                        !.tvec = [m \in Modes |->
                                    [BASE |-> TvecBASE[m],
                                     MODE |-> riscv_int_Direct]],
                        !.PC = 10]

NextMask ==
    /\ Len(hist) < MaxOpsMask
    /\ \/ IFetch(riscv.PC, TRUE, "executable")
       \/ \E e \in {riscv_E_IllegalInstruction, riscv_E_Breakpoint} :
            TakeException(e, 0)

SpecMask == InitMask /\ [][NextMask]_vars

(* C36 as stated: every pending-and-enabled interrupt is owned by a mode   *)
(* not below the current one, and a delivered interrupt is taken in the    *)
(* mode that owns it.  Violated: local interrupt 17 (bit 33), delegated to *)
(* Supervisor in mideleg, is delivered to Machine mode.                    *)

C36_DeliveredToOwner ==
    /\ \A i \in getPendingAndEnabledInterrupts(riscv) :
            OwnerMode(riscv, i) >= riscv.mode
    /\ InterruptDelivered =>
        /\ OwnerMode(Pre, Delivered) >= Pre.mode
        /\ riscv.mode = OwnerMode(Pre, Delivered)

C36_Witness ==
    /\ InterruptDelivered
    /\ Delivered = INT_INDEX(LocalInterrupt17)
    /\ Pre.mode = RISCV_MODE_USER
    /\ OwnerMode(Pre, Delivered) = RISCV_MODE_SUPERVISOR
    /\ riscv.mode = RISCV_MODE_MACHINE

(* The completed fetch that follows the last operation *)

FetchAfterTrap ==
    riscvIFetchExcept(Begin(riscv), riscv.PC, TRUE, "executable")

(* Pending interrupts enabled in mie that a mode above X owns *)

OwnedAbove(r, X) == {i \in r.mie \cap r.mip : OwnerMode(r, i) > X}

(* C37 for the owner by delegation: right after a trap or interrupt is     *)
(* taken to mode X every pending-and-enabled interrupt is owned by a mode  *)
(* above X, and a completed fetch that follows delivers one of those when  *)
(* there is one and none otherwise.                                        *)

C37_ByOwner ==
    (hist # <<>> /\ Called(riscv, "takeTrap")) =>
        LET X == riscv.mode
        IN  /\ ~riscv.IE[X]
            /\ getPendingAndEnabledInterrupts(riscv) = OwnedAbove(riscv, X)
            /\ Called(FetchAfterTrap, "doInterrupt")
                <=> (OwnedAbove(riscv, X) # {})
            /\ Called(FetchAfterTrap, "doInterrupt") =>
                (FetchAfterTrap.exception - riscv_E_Interrupt)
                    \in OwnedAbove(riscv, X)

(* C37 as stated: right after a trap or interrupt is taken to mode X no    *)
(* pending-and-enabled interrupt is owned by X or a lower mode, and a      *)
(* completed fetch that follows takes no interrupt to X or a lower mode.   *)
(* Violated: local interrupt 17 (bit 33), owned by Machine mode, is taken  *)
(* to Supervisor mode and taken there again by the next fetch.             *)

C37_NoReentry ==
    (hist # <<>> /\ Called(riscv, "takeTrap")) =>
        LET X == riscv.mode
        IN  /\ ~riscv.IE[X]
            /\ \A i \in getPendingAndEnabledInterrupts(riscv) :
                    OwnerMode(riscv, i) > X
            /\ Called(FetchAfterTrap, "doInterrupt") =>
                    FetchAfterTrap.mode > X

(* C36 and C37 as stated, with the pending interrupts within bits 0..31 *)

C36_Below32 ==
    (\A i \in riscv.mip : i < Uns32Bits) => C36_DeliveredToOwner

C37_Below32 ==
    (\A i \in riscv.mip : i < Uns32Bits) => C37_NoReentry

C37_WitnessReentry ==
    /\ Len(hist) = 2
    /\ Op2.name = "riscvIFetchExcept"
    /\ Op.name = "riscvIFetchExcept"
    /\ Pre.exception = LocalInterrupt17
    /\ Pre.mode = RISCV_MODE_SUPERVISOR
    /\ ~Pre.IE[RISCV_MODE_SUPERVISOR]
    /\ OwnerMode(Pre, INT_INDEX(LocalInterrupt17)) = RISCV_MODE_MACHINE
    /\ InterruptDelivered
    /\ riscv.exception = LocalInterrupt17
    /\ riscv.mode = RISCV_MODE_SUPERVISOR

(* An exception delegated to Supervisor is taken in User mode with the     *)
(* Supervisor software and Machine timer interrupts pending: the first is  *)
(* masked, the second is delivered by the next fetch                       *)

C37_Witness ==
    /\ Len(hist) = 2
    /\ Op2.name = "riscvTakeException"
    /\ Op2.pre.mode = RISCV_MODE_USER
    /\ Pre.mode = RISCV_MODE_SUPERVISOR
    /\ OwnerMode(Pre, INT_INDEX(riscv_E_SSWInterrupt)) = RISCV_MODE_SUPERVISOR
    /\ INT_INDEX(riscv_E_SSWInterrupt) \in Pre.mip
    /\ getPendingAndEnabledInterrupts(Pre)
        = {INT_INDEX(riscv_E_MTimerInterrupt)}
    /\ InterruptDelivered
    /\ riscv.exception = riscv_E_MTimerInterrupt
    /\ riscv.mode = RISCV_MODE_MACHINE

(* The Supervisor software interrupt taken to Supervisor mode stays        *)
(* pending; the next fetch does not deliver it again                       *)

C37_WitnessMasked ==
    /\ Len(hist) = 2
    /\ Op2.name = "riscvIFetchExcept"
    /\ Pre.exception = riscv_E_SSWInterrupt
    /\ Pre.mode = RISCV_MODE_SUPERVISOR
    /\ INT_INDEX(riscv_E_SSWInterrupt) \in Pre.mie \cap Pre.mip
    /\ Op.name = "riscvIFetchExcept"
    /\ ~Called(riscv, "doInterrupt")
    /\ riscv.mode = RISCV_MODE_SUPERVISOR

----------------------------------------------------------------------------
(* FETCH QUERIES *)

(* The branch of riscvIFetchExcept that state r selects, "none" when the   *)
(* fetch address is validated                                              *)

FetchBranch(r) ==
    IF r.netValue.resethaltreqS THEN "resethalt"
    ELSE IF r.netValue.haltreq /\ ~r.DM THEN "haltreq"
    ELSE IF getPendingAndEnabledInterrupts(r) # {} THEN "interrupt"
    ELSE "none"

(* C40: a fetch with complete = false that selects the reset-halt, the     *)
(* halt-request or the interrupt branch changes nothing of the hart, calls *)
(* nothing and reports an exception as pending; a fetch with complete =    *)
(* true on the same state performs the action of the branch and reports    *)
(* the exception as complete.                                              *)

C40_FetchQuery ==
    (Op.name = "riscvIFetchExcept" /\ FetchBranch(Pre) # "none") =>
        IF Op.b = 0
        THEN /\ [riscv EXCEPT !.fetchResult = Pre.fetchResult] =
                    [Pre EXCEPT !.ev = <<>>]
             /\ riscv.fetchResult = "VMI_FETCH_EXCEPTION_PENDING"
        ELSE /\ riscv.fetchResult = "VMI_FETCH_EXCEPTION_COMPLETE"
             /\ FetchBranch(Pre) = "resethalt" =>
                    /\ CalledWith(riscv, "enterDM", DMC_RESETHALTREQ)
                    /\ ~riscv.netValue.resethaltreqS
                    /\ riscv.DM
             /\ FetchBranch(Pre) = "haltreq" =>
                    /\ CalledWith(riscv, "enterDM", DMC_HALTREQ)
                    /\ riscv.DM
                    /\ riscv.dcsr.cause = DMC_HALTREQ
             /\ FetchBranch(Pre) = "interrupt" =>
                    /\ Called(riscv, "doInterrupt")
                    /\ IS_INTERRUPT(riscv.exception)

(* Reset with resethaltreq high, a query, then the completed fetch: the    *)
(* query leaves the latch set, the completed fetch enters Debug mode       *)

C40_Witness ==
    /\ Len(hist) >= 3
    /\ IsReset(Len(hist) - 2)
    /\ Op2.name = "riscvIFetchExcept" /\ Op2.b = 0
    /\ Pre.netValue.resethaltreqS
    /\ ~Pre.DM
    /\ Pre.fetchResult = "VMI_FETCH_EXCEPTION_PENDING"
    /\ Op.name = "riscvIFetchExcept" /\ Op.b = 1
    /\ riscv.DM
    /\ riscv.dcsr.cause = DMC_RESETHALTREQ
    /\ riscv.fetchResult = "VMI_FETCH_EXCEPTION_COMPLETE"

(* A query with the Machine timer interrupt pending and enabled, then the  *)
(* completed fetch that takes it                                           *)

C40_WitnessInterrupt ==
    /\ Len(hist) = 2
    /\ Op2.name = "riscvIFetchExcept" /\ Op2.b = 0
    /\ FetchBranch(Pre) = "interrupt"
    /\ Pre.exception = riscv_E_IllegalInstruction
    /\ Pre.fetchResult = "VMI_FETCH_EXCEPTION_PENDING"
    /\ Op.name = "riscvIFetchExcept" /\ Op.b = 1
    /\ riscv.exception = riscv_E_MTimerInterrupt

(* A query with haltreq high, then the completed fetch *)

C40_WitnessHaltreq ==
    /\ Len(hist) = 3
    /\ hist[1].name = "haltreqPortCB"
    /\ Op2.name = "riscvIFetchExcept" /\ Op2.b = 0
    /\ FetchBranch(Pre) = "haltreq"
    /\ ~Pre.DM
    /\ Op.name = "riscvIFetchExcept" /\ Op.b = 1
    /\ riscv.DM

====
